---- MODULE Spec2Model ----
(***************************************************************************)
(* SceneManager (CS-330 scene renderer): the texture registry, the          *)
(* material lookup and the scene preparation of the Module 7 revision, the  *)
(* transform and appearance setters and the RenderScene scripts of the      *)
(* Module 3, 4 and 7 revisions, together with the OpenGL, shader and        *)
(* stb_image state its methods act on.                                      *)
(***************************************************************************)
EXTENDS Integers, Sequences, FiniteSets, TLC

VARIABLES
    m_textureIDs,       \* TEXTURE_INFO m_textureIDs[16]: index -> [tag, ID]
    m_loadedTextures,   \* int m_loadedTextures
    m_objectMaterials,  \* std::vector<OBJECT_MATERIAL>
    m_pShaderManager,   \* "shader" or "NULL"
    m_basicMeshes,      \* "meshes" or "NULL"
    beyond,             \* memory past the end of m_textureIDs: index -> [tag, ID]
    pc,                 \* "live"; "destroyed" after the destructor; after a store
                        \* outside m_textureIDs "crashed" (the store faulted) or
                        \* "undefined" (it landed behind the array and the call
                        \* went on): the run is followed no further from there
    glGenCount,         \* texture names 1..glGenCount have been generated
    glDeleted,          \* texture names passed to glDeleteTextures
    glActive,           \* the active texture unit
    glBound,            \* unit -> texture name bound to GL_TEXTURE_2D (0: none)
    imageLive,          \* stbi image buffers loaded and not yet freed
    meshCalls,          \* the ShapeMeshes calls made so far, in order
    registered,         \* history: the registrations that returned true
    material,           \* the caller's OBJECT_MATERIAL passed to FindMaterial
    last,               \* the last call: its arguments and what it returned
    pre,                \* the registry and what the lookups returned when it was made
    materialBefore,     \* what that OBJECT_MATERIAL held when FindMaterial was called
    fs,                 \* the image files on disk: file -> channels (0: not decodable)
    directCalls,        \* number of direct CreateGLTexture calls that decoded an image
    prepares,           \* number of PrepareScene calls so far
    revision,           \* the revision of SceneManager.cpp that runs: "M3", "M4", "M7"
    uniforms,           \* the shader's uniforms: name -> << >> (never written) or <<value>>
    rpc,                \* RenderScene: 0 outside it, else the index of its next call
    frame,              \* number of RenderScene calls begun
    stmt,               \* the setter, GL or mesh call made last, with its arguments
    log,                \* the calls RenderScene made since its previous draw call
    draws,              \* per frame, the draw calls RenderScene has made
    appearance          \* per frame, the appearance uniforms at each draw call

vars == <<m_textureIDs, m_loadedTextures, m_objectMaterials, m_pShaderManager,
          m_basicMeshes, beyond, pc, glGenCount, glDeleted, glActive, glBound,
          imageLive, meshCalls, registered, material, materialBefore, last, pre,
          fs,
          directCalls, prepares, revision, uniforms, rpc, frame, stmt, log, draws,
          appearance>>

\* the state only RenderScene and the calls made for it change
scriptVars == <<revision, rpc, frame, stmt, log, draws, appearance>>

-----------------------------------------------------------------------------
\* Program constants

\* the size of m_textureIDs, the bound of the constructor's loop
MaxTextures == 16

\* the ID the constructor writes into every slot.  IDs are kept as the int
\* FindTextureID returns them as: an ID field holding -1 reads back as -1, and
\* the names glGenTextures hands out are small positive numbers.
UnsetID == -1

\* the value FindTextureID and FindTextureSlot start from and return when the
\* scan finds nothing
NotFound == -1

\* the placeholder the constructor writes into every slot
PlaceholderTag == "/0"

\* a LoadSceneTextures that lacks the call for the last letter
SceneTexturesWithoutLetterC ==
    << [file |-> "oakwood.jpg",          tag |-> "oakWood"],
       [file |-> "metal.jpg",            tag |-> "metalTexture"],
       [file |-> "stainless.jpg",        tag |-> "steelTexture"],
       [file |-> "lightblueplastic.jpg", tag |-> "ltbluePlastic"],
       [file |-> "blueplastic.jpg",      tag |-> "bluePlastic"],
       [file |-> "magentaplastic.jpg",   tag |-> "magentaPlastic"],
       [file |-> "redplastic.jpg",       tag |-> "redPlastic"],
       [file |-> "orangeplastic.jpg",    tag |-> "orangePlastic"],
       [file |-> "greenplastic.jpg",     tag |-> "greenPlastic"],
       [file |-> "ashwood.jpg",          tag |-> "ashWood"],
       [file |-> "letterA.png",          tag |-> "letterA"],
       [file |-> "letterB.png",          tag |-> "letterB"] >>

\* the textures LoadSceneTextures registers, in call order
SceneTextures ==
    << [file |-> "oakwood.jpg",          tag |-> "oakWood"],
       [file |-> "metal.jpg",            tag |-> "metalTexture"],
       [file |-> "stainless.jpg",        tag |-> "steelTexture"],
       [file |-> "lightblueplastic.jpg", tag |-> "ltbluePlastic"],
       [file |-> "blueplastic.jpg",      tag |-> "bluePlastic"],
       [file |-> "magentaplastic.jpg",   tag |-> "magentaPlastic"],
       [file |-> "redplastic.jpg",       tag |-> "redPlastic"],
       [file |-> "orangeplastic.jpg",    tag |-> "orangePlastic"],
       [file |-> "greenplastic.jpg",     tag |-> "greenPlastic"],
       [file |-> "ashwood.jpg",          tag |-> "ashWood"],
       [file |-> "letterA.png",          tag |-> "letterA"],
       [file |-> "letterB.png",          tag |-> "letterB"],
       [file |-> "letterC.png",          tag |-> "letterC"] >>

\* the ShapeMeshes calls of PrepareScene, in call order
SceneMeshCalls ==
    << "LoadPlaneMesh", "LoadCylinderMesh", "LoadBoxMesh", "LoadTorusMesh",
       "LoadExtraTorusMesh1", "DrawQuarterTorusMesh", "LoadSphereMesh" >>

\* the ShapeMeshes calls of PrepareScene in Module 4 and in Module 3
SceneMeshCallsM4 ==
    << "LoadPlaneMesh", "LoadCylinderMesh", "LoadTorusMesh", "LoadTorusMesh" >>

SceneMeshCallsM3 ==
    << "LoadPlaneMesh", "LoadCylinderMesh", "LoadBoxMesh", "LoadConeMesh",
       "LoadSphereMesh" >>

-----------------------------------------------------------------------------
\* Bounds of the model and the inputs it enumerates

MaxDirectCalls == 4
MaxPrepares == 2
MaxMaterials == 2
MaxFrames == 2
MaxUseTextures == 3

\* what the members hold that the Module 4 constructor does not assign: the
\* texture count and the IDs are whatever the memory of the object held, the
\* tags are default-constructed strings
GarbageCounts == {0, 1}
GarbageIDs == {0, 99}

\* image files and tags handed to CreateGLTexture before the textures are used,
\* and the tags they are then asked for
UseFiles == {"rgb.jpg", "gray.png"}
UseTags == {"A", "B", "oakWood"}

\* image files handed to CreateGLTexture directly
DirectFiles == {"rgb.jpg", "gray.png", "missing.jpg"}

\* tags handed to CreateGLTexture directly
DirectTags == {"A", "B"}

SceneTags == {SceneTextures[k].tag : k \in 1..Len(SceneTextures)}

\* tags looked up
LookupTags == {"A", "oakWood", PlaceholderTag}

\* the tags a lookup is checked for
CheckedTags == LookupTags \cup DirectTags \cup {"letterA", "letterC"}

\* what stbi_load makes of each file: 0 when it cannot decode it, else the
\* number of colour channels of the image
SceneFiles == {SceneTextures[k].file : k \in 1..Len(SceneTextures)}

FileSystem(missing, twoChannel) ==
    [f \in DirectFiles \cup SceneFiles |->
        CASE f = "rgb.jpg" -> 3
          [] f = "gray.png" -> 1
          [] f = "missing.jpg" -> 0
          [] f \in missing -> 0
          [] f \in twoChannel -> 2
          [] OTHER -> IF f \in {"letterA.png", "letterB.png", "letterC.png"}
                      THEN 4 ELSE 3]

\* the installations the program is run on: every scene texture in place, or
\* one of them missing and another stored as a two-channel image
FileSystems ==
    { FileSystem({}, {}), FileSystem({"oakwood.jpg"}, {"letterA.png"}) }

\* what an out-of-bounds store into m_textureIDs can do: fault, or land in the
\* memory that follows the array and let execution go on
OobOutcomes == {"fault", "continue"}

\* material descriptors: the five value fields differ from each other
Material(t, v) ==
    [tag |-> t, ambientColor |-> 10 + v, ambientStrength |-> 20 + v,
     diffuseColor |-> 30 + v, specularColor |-> 40 + v, shininess |-> 50 + v]

MaterialTags == {"wood", "glass"}

MaterialEntries == {Material(t, v) : t \in MaterialTags, v \in {1, 2}}

MaterialLists ==
    UNION {[1..n -> MaterialEntries] : n \in 0..MaxMaterials}

\* what the caller's OBJECT_MATERIAL may hold before FindMaterial fills it
CallerMaterials == {Material("", 0), Material("caller", 7)}

MaterialLookupTags == MaterialTags \cup {"metal"}

\* the arguments SetTransformations is called with directly: whole numbers,
\* and turns by multiples of a right angle, which glm::rotate computes exactly
TransformScales == { <<1, 1, 1>>, <<1, 2, 3>> }
TransformAngles == {0, 90, 180}
TransformPositions == { <<0, 0, 0>>, <<2, 3, 4>> }

-----------------------------------------------------------------------------
\* The object and the OpenGL / stb_image state as one record, so that a method
\* can be applied to the result of another (LoadSceneTextures calls
\* CreateGLTexture thirteen times and then BindGLTextures).

Cur ==
    [ids |-> m_textureIDs, n |-> m_loadedTextures, beyond |-> beyond, pc |-> pc,
     gen |-> glGenCount, active |-> glActive, bound |-> glBound,
     img |-> imageLive, reg |-> registered, meshes |-> meshCalls,
     uniforms |-> uniforms, returned |-> FALSE, ret |-> FALSE]

Install(st) ==
    /\ m_textureIDs' = st.ids
    /\ m_loadedTextures' = st.n
    /\ beyond' = st.beyond
    /\ pc' = st.pc
    /\ glGenCount' = st.gen
    /\ glActive' = st.active
    /\ glBound' = st.bound
    /\ imageLive' = st.img
    /\ registered' = st.reg
    /\ meshCalls' = st.meshes
    /\ uniforms' = st.uniforms

\* SceneManager::SceneManager
Constructed ==
    [ids |-> [i \in 0..(MaxTextures - 1) |-> [tag |-> PlaceholderTag, ID |-> UnsetID]],
     n |-> 0]

\* SceneManager::SceneManager of Module 4: m_textureIDs and m_loadedTextures
\* are not assigned
ConstructedM4 ==
    { [ids |-> [i \in 0..(MaxTextures - 1) |-> [tag |-> "", ID |-> id]], n |-> n] :
        n \in GarbageCounts, id \in GarbageIDs }

\* stbi_load(filename, &width, &height, &colorChannels, 0): the number of
\* channels of the decoded image, 0 for a NULL result
stbi_load(filename) == fs[filename]

\* the element m_textureIDs[index] names: a slot of the array, or the memory
\* behind it
EntryAt(st, index) ==
    IF index \in DOMAIN st.ids THEN st.ids[index]
    ELSE IF index \in DOMAIN st.beyond THEN st.beyond[index]
    ELSE [tag |-> PlaceholderTag, ID |-> UnsetID]

\* glBindTexture(GL_TEXTURE_2D, name) on the active unit
glBindTexture(st, name) ==
    [st EXCEPT !.bound = [u \in DOMAIN st.bound |->
                             IF u = st.active THEN name ELSE st.bound[u]]]

\* channel counts that would also let a one-channel image through
SupportedChannelsWithGray == {1, 3, 4}

\* the channel counts CreateGLTexture uploads: RGB and RGBA
SupportedChannels == {3, 4}

\* a store that always goes to the first slot
RegisterIndexZero(st) == 0

\* the index CreateGLTexture stores the new entry at: m_loadedTextures
RegisterIndex(st) == st.n

\* SceneManager::CreateGLTexture(filename, tag); outcome is what an
\* out-of-bounds store does on this build
CreateGLTexture(st, filename, tag, outcome) ==
    LET colorChannels == stbi_load(filename)
        textureID == st.gen + 1
        index == RegisterIndex(st)
        entry == [tag |-> tag, ID |-> textureID]
        loaded == [st EXCEPT !.img = @ + 1, !.gen = textureID]
        uploaded == glBindTexture(loaded, textureID)
        unbound == glBindTexture([uploaded EXCEPT !.img = @ - 1], 0)
        record == [tag |-> tag, slot |-> index, ID |-> textureID]
    IN  IF colorChannels = 0
        THEN [st EXCEPT !.returned = TRUE, !.ret = FALSE]
        ELSE IF colorChannels \notin SupportedChannels
        THEN [uploaded EXCEPT !.returned = TRUE, !.ret = FALSE]
        ELSE IF index \in DOMAIN st.ids
        THEN [unbound EXCEPT !.ids[index] = entry, !.n = @ + 1,
                             !.reg = Append(@, record),
                             !.returned = TRUE, !.ret = TRUE]
        ELSE IF outcome = "fault"
        THEN [unbound EXCEPT !.pc = "crashed", !.returned = FALSE]
        ELSE [unbound EXCEPT !.beyond = (index :> entry) @@ @, !.n = @ + 1,
                             !.reg = Append(@, record), !.pc = "undefined",
                             !.returned = TRUE, !.ret = TRUE]

\* a loop that never selects the texture unit, so that every bind lands on the
\* active one
BindGLTexturesOnActiveUnit(st) ==
    IF st.n <= 0 THEN st
    ELSE glBindTexture(st, EntryAt(st, st.n - 1).ID)

\* SceneManager::BindGLTextures
BindGLTextures(st) ==
    IF st.n <= 0 THEN st
    ELSE [st EXCEPT !.bound = [u \in DOMAIN st.bound |->
                                  IF u < st.n THEN EntryAt(st, u).ID ELSE st.bound[u]],
                    !.active = st.n - 1]

\* SceneManager::DestroyGLTextures: glGenTextures(1, &m_textureIDs[i].ID) for
\* every loaded slot
DestroyGLTextures(st) ==
    [st EXCEPT !.ids = [i \in DOMAIN st.ids |->
                           IF i < st.n THEN [st.ids[i] EXCEPT !.ID = st.gen + i + 1]
                           ELSE st.ids[i]],
               !.gen = @ + st.n]

\* the CreateGLTexture calls of LoadSceneTextures from the k-th on; an
\* out-of-bounds store ends the defined part of the run
RECURSIVE LoadFrom(_, _, _)
LoadFrom(st, k, outcome) ==
    IF k > Len(SceneTextures) \/ st.pc # "live" THEN st
    ELSE LoadFrom(CreateGLTexture(st, SceneTextures[k].file, SceneTextures[k].tag,
                                  outcome),
                  k + 1, outcome)

\* SceneManager::LoadSceneTextures
LoadSceneTextures(st, outcome) ==
    LET created == LoadFrom(st, 1, outcome)
    IN  IF created.pc = "live" THEN BindGLTextures(created) ELSE created

\* SceneManager::PrepareScene
PrepareScene(st, outcome) ==
    LET textured == LoadSceneTextures(st, outcome)
    IN  IF textured.pc = "live"
        THEN [textured EXCEPT !.meshes = @ \o SceneMeshCalls]
        ELSE textured

\* the element m_textureIDs[index] of this object
Registered(index) ==
    IF index \in DOMAIN m_textureIDs THEN m_textureIDs[index]
    ELSE IF index \in DOMAIN beyond THEN beyond[index]
    ELSE [tag |-> PlaceholderTag, ID |-> UnsetID]

\* a scan that keeps going after a match and so returns the last one
ScanTextureSlotLast(tag, index) ==
    LET hits == {i \in index..(m_loadedTextures - 1) : Registered(i).tag = tag}
    IN  IF hits = {} THEN NotFound
        ELSE CHOOSE i \in hits : \A j \in hits : j <= i

\* SceneManager::FindTextureSlot: the while loop from index on
RECURSIVE ScanTextureSlot(_, _)
ScanTextureSlot(tag, index) ==
    IF index < m_loadedTextures
    THEN IF Registered(index).tag = tag THEN index
         ELSE ScanTextureSlot(tag, index + 1)
    ELSE NotFound

\* a lookup that scans all of m_textureIDs, the slots never registered too
FindTextureSlotWholeArray(tag) ==
    LET hits == {i \in 0..(MaxTextures - 1) : Registered(i).tag = tag}
    IN  IF hits = {} THEN NotFound
        ELSE CHOOSE i \in hits : \A j \in hits : i <= j

FindTextureSlot(tag) == ScanTextureSlot(tag, 0)

\* a scan that keeps going after a match and so returns the ID of the last one
ScanTextureIDLast(tag, index) ==
    LET hits == {i \in index..(m_loadedTextures - 1) : Registered(i).tag = tag}
    IN  IF hits = {} THEN NotFound
        ELSE Registered(CHOOSE i \in hits : \A j \in hits : j <= i).ID

\* SceneManager::FindTextureID: the while loop from index on
RECURSIVE ScanTextureID(_, _)
ScanTextureID(tag, index) ==
    IF index < m_loadedTextures
    THEN IF Registered(index).tag = tag THEN Registered(index).ID
         ELSE ScanTextureID(tag, index + 1)
    ELSE NotFound

FindTextureID(tag) == ScanTextureID(tag, 0)

\* SceneManager::FindMaterial: the while loop from index on (the vector is
\* indexed from 0, the sequence from 1); mat is the caller's OBJECT_MATERIAL
RECURSIVE ScanMaterial(_, _, _)
ScanMaterial(tag, mat, index) ==
    IF index < Len(m_objectMaterials)
    THEN IF m_objectMaterials[index + 1].tag = tag
         THEN [mat EXCEPT
                 !.ambientColor = m_objectMaterials[index + 1].ambientColor,
                 !.ambientStrength = m_objectMaterials[index + 1].ambientStrength,
                 !.diffuseColor = m_objectMaterials[index + 1].diffuseColor,
                 !.specularColor = m_objectMaterials[index + 1].specularColor,
                 !.shininess = m_objectMaterials[index + 1].shininess]
         ELSE ScanMaterial(tag, mat, index + 1)
    ELSE mat

\* SceneManager::FindMaterial(tag, material): the value returned and what the
\* reference parameter holds afterwards
FindMaterial(tag, mat) ==
    IF Len(m_objectMaterials) = 0
    THEN [ret |-> FALSE, material |-> mat]
    ELSE [ret |-> TRUE, material |-> ScanMaterial(tag, mat, 0)]

-----------------------------------------------------------------------------
\* The transform and appearance setters.  Lengths are kept in ten-thousandths
\* (the literals of the RenderScene scripts have at most four decimals), so
\* Fixed(1) is 1.0f; angles are whole degrees.  A mat4 is kept by rows:
\* m[i][j] is the element of row i and column j, and it acts on a column
\* vector.

Revisions == {"M3", "M4", "M7"}

Fixed(n) == n * 10000

\* the nearest ten-thousandth to a product of two numbers in ten-thousandths
Rounded(x) == (x + (Fixed(1) \div 2)) \div Fixed(1)

\* cos(glm::radians(degrees)) and sin(glm::radians(degrees)) for the angles the
\* model uses, to the nearest ten-thousandth
cos(degrees) ==
    LET d == degrees % 360
    IN  CASE d = 0 -> Fixed(1)  [] d = 15 -> 9659  [] d = 25 -> 9063
          [] d = 45 -> 7071     [] d = 90 -> 0     [] d = 180 -> -Fixed(1)
          [] d = 270 -> 0

sin(degrees) ==
    LET d == degrees % 360
    IN  CASE d = 0 -> 0         [] d = 15 -> 2588  [] d = 25 -> 4226
          [] d = 45 -> 7071     [] d = 90 -> Fixed(1)  [] d = 180 -> 0
          [] d = 270 -> -Fixed(1)

\* glm::mat4 * glm::mat4; x and y are the values of the operands
MatMul(a, b) ==
    CHOOSE product \in
        { [i \in 1..4 |-> [j \in 1..4 |->
              Rounded(x[i][1] * y[1][j] + x[i][2] * y[2][j]
                      + x[i][3] * y[3][j] + x[i][4] * y[4][j])]]
          : x \in {a}, y \in {b} } : TRUE

\* glm::scale(v)
glm_scale(v) ==
    [i \in 1..4 |-> [j \in 1..4 |->
        IF i # j THEN 0 ELSE IF i <= 3 THEN v[i] ELSE Fixed(1)]]

\* a rotation that turns about the Z axis whatever axis it is given
glm_rotateAboutZ(degrees, axis) ==
    [i \in 1..4 |-> [j \in 1..4 |->
        CASE i = 1 /\ j = 1 -> cos(degrees)
          [] i = 1 /\ j = 2 -> -sin(degrees)
          [] i = 2 /\ j = 1 -> sin(degrees)
          [] i = 2 /\ j = 2 -> cos(degrees)
          [] OTHER -> IF i = j THEN Fixed(1) ELSE 0]]

\* glm::rotate(glm::radians(degrees), axis) for a unit axis along X, Y or Z:
\* cos * I + (1 - cos) * axis axis^T + sin * [axis]x
glm_rotate(degrees, axis) ==
    LET cross == << <<0, -axis[3], axis[2]>>,
                    <<axis[3], 0, -axis[1]>>,
                    <<-axis[2], axis[1], 0>> >>
    IN  [i \in 1..4 |-> [j \in 1..4 |->
            IF i = 4 \/ j = 4 THEN (IF i = j THEN Fixed(1) ELSE 0)
            ELSE (IF i = j THEN cos(degrees) ELSE 0)
                 + (Fixed(1) - cos(degrees)) * axis[i] * axis[j]
                 + sin(degrees) * cross[i][j]]]

\* a translation that stores the offset in the fourth row instead of the
\* fourth column
glm_translateRow(v) ==
    [i \in 1..4 |-> [j \in 1..4 |->
        IF i = j THEN Fixed(1) ELSE IF i = 4 THEN v[j] ELSE 0]]

\* glm::translate(v)
glm_translate(v) ==
    [i \in 1..4 |-> [j \in 1..4 |->
        IF i = j THEN Fixed(1) ELSE IF j = 4 THEN v[i] ELSE 0]]

\* the product with the scale taken last instead of first
ModelViewScaleLast(scaleXYZ, XrotationDegrees, YrotationDegrees, ZrotationDegrees, positionXYZ) ==
    LET scale == glm_scale(scaleXYZ)
        rotationX == glm_rotate(XrotationDegrees, <<1, 0, 0>>)
        rotationY == glm_rotate(YrotationDegrees, <<0, 1, 0>>)
        rotationZ == glm_rotate(ZrotationDegrees, <<0, 0, 1>>)
        translation == glm_translate(positionXYZ)
    IN  MatMul(MatMul(MatMul(MatMul(scale, translation), rotationX), rotationY),
               rotationZ)

\* the product with the three rotations in the opposite order
ModelViewZYX(scaleXYZ, XrotationDegrees, YrotationDegrees, ZrotationDegrees, positionXYZ) ==
    LET scale == glm_scale(scaleXYZ)
        rotationX == glm_rotate(XrotationDegrees, <<1, 0, 0>>)
        rotationY == glm_rotate(YrotationDegrees, <<0, 1, 0>>)
        rotationZ == glm_rotate(ZrotationDegrees, <<0, 0, 1>>)
        translation == glm_translate(positionXYZ)
    IN  MatMul(MatMul(MatMul(MatMul(translation, rotationZ), rotationY), rotationX),
               scale)

\* SetTransformations of Module 7: the matrices it builds and
\* modelView = translation * rotationX * rotationY * rotationZ * scale
ModelViewM7(scaleXYZ, XrotationDegrees, YrotationDegrees, ZrotationDegrees, positionXYZ) ==
    LET scale == glm_scale(scaleXYZ)
        rotationX == glm_rotate(XrotationDegrees, <<1, 0, 0>>)
        rotationY == glm_rotate(YrotationDegrees, <<0, 1, 0>>)
        rotationZ == glm_rotate(ZrotationDegrees, <<0, 0, 1>>)
        translation == glm_translate(positionXYZ)
    IN  MatMul(MatMul(MatMul(MatMul(translation, rotationX), rotationY), rotationZ),
               scale)

\* SetTransformations of Module 4
ModelViewM4(scaleXYZ, XrotationDegrees, YrotationDegrees, ZrotationDegrees, positionXYZ) ==
    LET scale == glm_scale(scaleXYZ)
        rotationX == glm_rotate(XrotationDegrees, <<1, 0, 0>>)
        rotationY == glm_rotate(YrotationDegrees, <<0, 1, 0>>)
        rotationZ == glm_rotate(ZrotationDegrees, <<0, 0, 1>>)
        translation == glm_translate(positionXYZ)
    IN  MatMul(MatMul(MatMul(MatMul(translation, rotationX), rotationY), rotationZ),
               scale)

\* SetTransformations of Module 3
ModelViewM3(scaleXYZ, XrotationDegrees, YrotationDegrees, ZrotationDegrees, positionXYZ) ==
    LET scale == glm_scale(scaleXYZ)
        rotationX == glm_rotate(XrotationDegrees, <<1, 0, 0>>)
        rotationY == glm_rotate(YrotationDegrees, <<0, 1, 0>>)
        rotationZ == glm_rotate(ZrotationDegrees, <<0, 0, 1>>)
        translation == glm_translate(positionXYZ)
    IN  MatMul(MatMul(MatMul(MatMul(translation, rotationX), rotationY), rotationZ),
               scale)

\* a setter that uploads the matrix without looking at m_pShaderManager and
\* turns texturing off as it does
SetTransformationsUnguarded(st, scaleXYZ, XrotationDegrees, YrotationDegrees, ZrotationDegrees, positionXYZ) ==
    [st EXCEPT !.uniforms.model =
                  <<ModelViewM7(scaleXYZ, XrotationDegrees, YrotationDegrees,
                                ZrotationDegrees, positionXYZ)>>,
               !.uniforms.bUseTexture = <<0>>]

\* a setter that keeps its translation from the call before when the position
\* it is given is the origin
SetTransformationsStaleTranslation(st, scaleXYZ, XrotationDegrees, YrotationDegrees, ZrotationDegrees, positionXYZ) ==
    LET before == IF st.uniforms.model = << >> THEN <<0, 0, 0>>
                  ELSE <<st.uniforms.model[1][1][4], st.uniforms.model[1][2][4],
                         st.uniforms.model[1][3][4]>>
        kept == IF positionXYZ = <<0, 0, 0>> THEN before ELSE positionXYZ
    IN  IF m_pShaderManager # "NULL"
        THEN [st EXCEPT !.uniforms.model =
                           <<ModelViewM7(scaleXYZ, XrotationDegrees, YrotationDegrees,
                                         ZrotationDegrees, kept)>>]
        ELSE st

\* SceneManager::SetTransformations
SetTransformations(st, scaleXYZ, XrotationDegrees, YrotationDegrees, ZrotationDegrees, positionXYZ) ==
    LET modelView ==
            CASE revision = "M7" ->
                   ModelViewM7(scaleXYZ, XrotationDegrees, YrotationDegrees,
                               ZrotationDegrees, positionXYZ)
              [] revision = "M4" ->
                   ModelViewM4(scaleXYZ, XrotationDegrees, YrotationDegrees,
                               ZrotationDegrees, positionXYZ)
              [] revision = "M3" ->
                   ModelViewM3(scaleXYZ, XrotationDegrees, YrotationDegrees,
                               ZrotationDegrees, positionXYZ)
    IN  IF m_pShaderManager # "NULL"
        THEN [st EXCEPT !.uniforms.model = <<modelView>>]
        ELSE st

\* SceneManager::SetShaderColor; currentColor is <<r, g, b, a>>
SetShaderColor(st, currentColor) ==
    IF m_pShaderManager # "NULL"
    THEN [st EXCEPT !.uniforms.bUseTexture = <<0>>,
                    !.uniforms.objectColor = <<currentColor>>]
    ELSE st

\* SceneManager::SetShaderTexture of Module 4
SetShaderTextureM4(st, textureTag) ==
    LET textureID == FindTextureSlot(textureTag)
    IN  IF m_pShaderManager # "NULL"
        THEN [st EXCEPT !.uniforms.bUseTexture = <<1>>,
                        !.uniforms.objectTexture = <<textureID>>]
        ELSE st

\* a setter that uploads the slot and relies on the binding BindGLTextures made
SetShaderTextureWithoutBind(st, textureTag) ==
    LET textureSlot == FindTextureSlot(textureTag)
    IN  IF m_pShaderManager = "NULL" THEN st
        ELSE IF textureSlot >= 0
        THEN [st EXCEPT !.uniforms.bUseTexture = <<1>>,
                        !.uniforms.objectTexture = <<textureSlot>>]
        ELSE [st EXCEPT !.uniforms.bUseTexture = <<1>>]

\* SceneManager::SetShaderTexture: of Module 7, and of Module 4 when that
\* revision runs
SetShaderTexture(st, textureTag) ==
    LET textureSlot == FindTextureSlot(textureTag)
        used == [st EXCEPT !.uniforms.bUseTexture = <<1>>]
        active == [used EXCEPT !.active = textureSlot]
    IN  IF revision = "M4" THEN SetShaderTextureM4(st, textureTag)
        ELSE IF m_pShaderManager = "NULL" THEN st
        ELSE IF textureSlot >= 0
        THEN [glBindTexture(active, EntryAt(st, textureSlot).ID)
                 EXCEPT !.uniforms.objectTexture = <<textureSlot>>]
        ELSE used

\* SceneManager::SetTextureUVScale
SetTextureUVScale(st, u, v) ==
    IF m_pShaderManager # "NULL"
    THEN [st EXCEPT !.uniforms.UVscale = << <<u, v>> >>]
    ELSE st

\* the uniforms SetShaderMaterial uploads
MaterialUniforms ==
    {"material.ambientColor", "material.ambientStrength", "material.diffuseColor",
     "material.specularColor", "material.shininess"}

\* what a call through a NULL m_pShaderManager does: it faults, or it goes on
\* with no shader program to write to
NullOutcomes == {"fault", "continue"}

\* SceneManager::SetShaderMaterial; local is what its OBJECT_MATERIAL variable
\* holds before FindMaterial is called (it is not initialised), outcome what a
\* call through a NULL m_pShaderManager does on this build
SetShaderMaterial(st, materialTag, local, outcome) ==
    LET bReturn == FindMaterial(materialTag, local).ret
        mat == FindMaterial(materialTag, local).material
    IN  IF Len(m_objectMaterials) > 0 /\ bReturn
        THEN IF m_pShaderManager = "NULL"
             THEN [st EXCEPT !.pc = IF outcome = "fault" THEN "crashed"
                                    ELSE "undefined"]
             ELSE [st EXCEPT
                     !.uniforms["material.ambientColor"] = <<mat.ambientColor>>,
                     !.uniforms["material.ambientStrength"] = <<mat.ambientStrength>>,
                     !.uniforms["material.diffuseColor"] = <<mat.diffuseColor>>,
                     !.uniforms["material.specularColor"] = <<mat.specularColor>>,
                     !.uniforms["material.shininess"] = <<mat.shininess>>]
        ELSE st

-----------------------------------------------------------------------------
\* RenderScene.  Each revision's RenderScene is a straight line of calls; it
\* is kept as the list of these calls in program order, each with the values
\* its arguments have when it is made: for SetTransformations the scale, the
\* three angles and the position last assigned to scaleXYZ,
\* XrotationDegrees, YrotationDegrees, ZrotationDegrees and positionXYZ
\* (lengths in ten-thousandths), for SetShaderColor the four components in
\* hundred-thousandths, for a mesh call its name and arguments.

\* SceneManager::RenderScene of Module 3
RenderSceneM3 ==
    << [op |-> "SetTransformations", v |-> <<200000, 10000, 100000, 0, 0, 0, 0, 0, 0>>, tag |-> ""],
       [op |-> "SetShaderColor", v |-> <<66667, 77255, 100000, 100000>>, tag |-> ""],
       [op |-> "Draw", v |-> <<>>, tag |-> "DrawPlaneMesh"],
       [op |-> "SetTransformations", v |-> <<200000, 10000, 100000, 90, 0, 0, 0, 90000, -100000>>, tag |-> ""],
       [op |-> "SetShaderColor", v |-> <<66667, 77255, 100000, 100000>>, tag |-> ""],
       [op |-> "Draw", v |-> <<>>, tag |-> "DrawPlaneMesh"],
       [op |-> "SetTransformations", v |-> <<20000, 30000, 20000, 0, 90, 0, 40000, 0, 0>>, tag |-> ""],
       [op |-> "SetShaderColor", v |-> <<49020, 67843, 100000, 100000>>, tag |-> ""],
       [op |-> "Draw", v |-> <<>>, tag |-> "DrawCylinderMesh"],
       [op |-> "SetTransformations", v |-> <<20000, 45000, 20000, 0, 90, 0, 0, 0, 0>>, tag |-> ""],
       [op |-> "SetShaderColor", v |-> <<49020, 67843, 100000, 100000>>, tag |-> ""],
       [op |-> "Draw", v |-> <<>>, tag |-> "DrawCylinderMesh"],
       [op |-> "SetTransformations", v |-> <<20000, 15000, 20000, 0, 90, 0, -40000, 0, 0>>, tag |-> ""],
       [op |-> "SetShaderColor", v |-> <<49020, 67843, 100000, 100000>>, tag |-> ""],
       [op |-> "Draw", v |-> <<>>, tag |-> "DrawCylinderMesh"],
       [op |-> "SetTransformations", v |-> <<20000, 20000, 20000, 0, 45, 0, 40000, 40000, 0>>, tag |-> ""],
       [op |-> "SetShaderColor", v |-> <<83137, 32549, 32549, 100000>>, tag |-> ""],
       [op |-> "Draw", v |-> <<>>, tag |-> "DrawBoxMesh"],
       [op |-> "SetTransformations", v |-> <<12500, 35000, 12500, 0, 0, 0, 0, 45000, 0>>, tag |-> ""],
       [op |-> "SetShaderColor", v |-> <<100000, 100000, 20000, 100000>>, tag |-> ""],
       [op |-> "Draw", v |-> <<>>, tag |-> "DrawConeMesh"],
       [op |-> "SetTransformations", v |-> <<15000, 15000, 15000, 0, 0, 0, -40000, 30000, 0>>, tag |-> ""],
       [op |-> "SetShaderColor", v |-> <<80000, 30000, 90000, 100000>>, tag |-> ""],
       [op |-> "Draw", v |-> <<>>, tag |-> "DrawSphereMesh"] >>

\* SceneManager::RenderScene of Module 4
RenderSceneM4 ==
    << [op |-> "SetTransformations", v |-> <<200000, 10000, 100000, 0, 0, 0, 0, 0, 0>>, tag |-> ""],
       [op |-> "SetShaderColor", v |-> <<100000, 100000, 100000, 100000>>, tag |-> ""],
       [op |-> "Draw", v |-> <<>>, tag |-> "DrawPlaneMesh"],
       [op |-> "SetTransformations", v |-> <<200000, 10000, 100000, 90, 0, 0, 0, 100000, -100000>>, tag |-> ""],
       [op |-> "SetShaderColor", v |-> <<100000, 100000, 100000, 100000>>, tag |-> ""],
       [op |-> "Draw", v |-> <<>>, tag |-> "DrawPlaneMesh"],
       [op |-> "SetTransformations", v |-> <<30000, 2500, 30000, 0, 0, 0, 100000, 0, -15000>>, tag |-> ""],
       [op |-> "SetShaderColor", v |-> <<94902, 82353, 74118, 100000>>, tag |-> ""],
       [op |-> "Draw", v |-> <<>>, tag |-> "DrawCylinderMesh"],
       [op |-> "SetTransformations", v |-> <<2500, 65000, 5000, 0, 0, 0, 100000, 5000, -15000>>, tag |-> ""],
       [op |-> "SetShaderColor", v |-> <<94902, 82353, 74118, 100000>>, tag |-> ""],
       [op |-> "Draw", v |-> <<>>, tag |-> "DrawCylinderMesh"],
       [op |-> "SetTransformations", v |-> <<35000, 35000, 30000, 90, 0, 0, 100000, 5000, -15000>>, tag |-> ""],
       [op |-> "SetShaderColor", v |-> <<78431, 94118, 100000, 100000>>, tag |-> ""],
       [op |-> "Draw", v |-> <<>>, tag |-> "DrawTorusMesh"],
       [op |-> "SetTransformations", v |-> <<30000, 30000, 30000, 90, 0, 0, 100000, 15000, -15000>>, tag |-> ""],
       [op |-> "SetShaderColor", v |-> <<28000, 44000, 96000, 100000>>, tag |-> ""],
       [op |-> "Draw", v |-> <<>>, tag |-> "DrawTorusMesh"],
       [op |-> "SetTransformations", v |-> <<25000, 25000, 30000, 90, 0, 0, 100000, 25000, -15000>>, tag |-> ""],
       [op |-> "SetShaderColor", v |-> <<100000, 33556, 100000, 100000>>, tag |-> ""],
       [op |-> "Draw", v |-> <<>>, tag |-> "DrawTorusMesh"],
       [op |-> "SetTransformations", v |-> <<20000, 20000, 30000, 90, 0, 0, 100000, 35000, -15000>>, tag |-> ""],
       [op |-> "SetShaderColor", v |-> <<100000, 19608, 19608, 100000>>, tag |-> ""],
       [op |-> "Draw", v |-> <<>>, tag |-> "DrawTorusMesh"],
       [op |-> "SetTransformations", v |-> <<15000, 15000, 30000, 90, 0, 0, 100000, 45000, -15000>>, tag |-> ""],
       [op |-> "SetShaderColor", v |-> <<100000, 78431, 0, 100000>>, tag |-> ""],
       [op |-> "Draw", v |-> <<>>, tag |-> "DrawTorusMesh"],
       [op |-> "SetTransformations", v |-> <<10000, 10000, 30000, 90, 0, 0, 100000, 55000, -15000>>, tag |-> ""],
       [op |-> "SetShaderColor", v |-> <<59216, 78431, 23523, 100000>>, tag |-> ""],
       [op |-> "Draw", v |-> <<>>, tag |-> "DrawTorusMesh"] >>

\* SceneManager::RenderScene of Module 7
RenderSceneM7 ==
    << [op |-> "SetTransformations", v |-> <<200000, 10000, 100000, 0, 0, 0, 0, 0, 0>>, tag |-> ""],
       [op |-> "SetShaderColor", v |-> <<100000, 100000, 100000, 100000>>, tag |-> ""],
       [op |-> "Draw", v |-> <<>>, tag |-> "DrawPlaneMesh"],
       [op |-> "SetTransformations", v |-> <<200000, 10000, 100000, 90, 0, 0, 0, 100000, -100000>>, tag |-> ""],
       [op |-> "SetShaderColor", v |-> <<100000, 100000, 100000, 100000>>, tag |-> ""],
       [op |-> "Draw", v |-> <<>>, tag |-> "DrawPlaneMesh"],
       [op |-> "SetTransformations", v |-> <<20000, 2500, 20000, 0, 0, 0, 100000, 0, -15000>>, tag |-> ""],
       [op |-> "SetShaderTexture", v |-> <<>>, tag |-> "oakWood"],
       [op |-> "Draw", v |-> <<>>, tag |-> "DrawCylinderMesh"],
       [op |-> "glBindTexture", v |-> <<0>>, tag |-> ""],
       [op |-> "SetTransformations", v |-> <<2000, 52000, 2000, 0, 0, 0, 100000, 1000, -15000>>, tag |-> ""],
       [op |-> "SetShaderTexture", v |-> <<>>, tag |-> "oakWood"],
       [op |-> "Draw", v |-> <<>>, tag |-> "DrawCylinderMesh"],
       [op |-> "glBindTexture", v |-> <<0>>, tag |-> ""],
       [op |-> "SetTransformations", v |-> <<20000, 20000, 20000, 90, 0, 0, 100000, 6000, -15000>>, tag |-> ""],
       [op |-> "SetShaderTexture", v |-> <<>>, tag |-> "ltbluePlastic"],
       [op |-> "Draw", v |-> <<>>, tag |-> "DrawTorusMesh"],
       [op |-> "glBindTexture", v |-> <<0>>, tag |-> ""],
       [op |-> "SetTransformations", v |-> <<17500, 17500, 17500, 90, 0, 0, 100000, 17000, -15000>>, tag |-> ""],
       [op |-> "SetShaderTexture", v |-> <<>>, tag |-> "bluePlastic"],
       [op |-> "Draw", v |-> <<>>, tag |-> "DrawTorusMesh"],
       [op |-> "glBindTexture", v |-> <<0>>, tag |-> ""],
       [op |-> "SetTransformations", v |-> <<15000, 15000, 15000, 90, 0, 0, 100000, 26500, -15000>>, tag |-> ""],
       [op |-> "SetShaderTexture", v |-> <<>>, tag |-> "magentaPlastic"],
       [op |-> "Draw", v |-> <<>>, tag |-> "DrawTorusMesh"],
       [op |-> "glBindTexture", v |-> <<0>>, tag |-> ""],
       [op |-> "SetTransformations", v |-> <<12500, 12500, 12500, 90, 0, 0, 100000, 34000, -15000>>, tag |-> ""],
       [op |-> "SetShaderTexture", v |-> <<>>, tag |-> "redPlastic"],
       [op |-> "Draw", v |-> <<>>, tag |-> "DrawTorusMesh"],
       [op |-> "glBindTexture", v |-> <<0>>, tag |-> ""],
       [op |-> "SetTransformations", v |-> <<10000, 10000, 10000, 90, 0, 0, 100000, 40500, -15000>>, tag |-> ""],
       [op |-> "SetShaderTexture", v |-> <<>>, tag |-> "orangePlastic"],
       [op |-> "Draw", v |-> <<>>, tag |-> "DrawTorusMesh"],
       [op |-> "SetTransformations", v |-> <<7500, 7500, 7500, 90, 0, 0, 100000, 46000, -15000>>, tag |-> ""],
       [op |-> "SetShaderTexture", v |-> <<>>, tag |-> "greenPlastic"],
       [op |-> "Draw", v |-> <<>>, tag |-> "DrawExtraTorusMesh1"],
       [op |-> "SetTransformations", v |-> <<10000, 7500, 100000, 0, 90, 0, 0, 3500, -35000>>, tag |-> ""],
       [op |-> "SetShaderTexture", v |-> <<>>, tag |-> "oakWood"],
       [op |-> "Draw", v |-> <<>>, tag |-> "DrawBoxMesh"],
       [op |-> "glBindTexture", v |-> <<0>>, tag |-> ""],
       [op |-> "SetTransformations", v |-> <<500, 50000, 500, 0, 0, 0, 42500, 7500, -35000>>, tag |-> ""],
       [op |-> "SetTextureUVScale", v |-> <<1000, 1000>>, tag |-> ""],
       [op |-> "SetShaderTexture", v |-> <<>>, tag |-> "steelTexture"],
       [op |-> "Draw", v |-> <<>>, tag |-> "DrawCylinderMesh"],
       [op |-> "glBindTexture", v |-> <<0>>, tag |-> ""],
       [op |-> "SetTransformations", v |-> <<500, 50000, 500, 0, 0, 0, -42500, 7500, -35000>>, tag |-> ""],
       [op |-> "SetTextureUVScale", v |-> <<1000, 1000>>, tag |-> ""],
       [op |-> "SetShaderTexture", v |-> <<>>, tag |-> "steelTexture"],
       [op |-> "Draw", v |-> <<>>, tag |-> "DrawCylinderMesh"],
       [op |-> "glBindTexture", v |-> <<0>>, tag |-> ""],
       [op |-> "SetTransformations", v |-> <<500, 81000, 500, 0, 0, 90, 40500, 59500, -35000>>, tag |-> ""],
       [op |-> "SetTextureUVScale", v |-> <<1000, 1000>>, tag |-> ""],
       [op |-> "SetShaderTexture", v |-> <<>>, tag |-> "steelTexture"],
       [op |-> "Draw", v |-> <<>>, tag |-> "DrawCylinderMesh"],
       [op |-> "glBindTexture", v |-> <<0>>, tag |-> ""],
       [op |-> "SetTransformations", v |-> <<2000, 2000, 1750, 0, 0, 0, 40500, 57500, -35000>>, tag |-> ""],
       [op |-> "SetTextureUVScale", v |-> <<1000, 1000>>, tag |-> ""],
       [op |-> "SetShaderTexture", v |-> <<>>, tag |-> "steelTexture"],
       [op |-> "Draw", v |-> <<2000>>, tag |-> "DrawQuarterTorusMesh"],
       [op |-> "glBindTexture", v |-> <<0>>, tag |-> ""],
       [op |-> "SetTransformations", v |-> <<2000, 2000, 1750, 0, 0, 90, -40500, 57500, -35000>>, tag |-> ""],
       [op |-> "SetTextureUVScale", v |-> <<1000, 1000>>, tag |-> ""],
       [op |-> "SetShaderTexture", v |-> <<>>, tag |-> "steelTexture"],
       [op |-> "Draw", v |-> <<2000>>, tag |-> "DrawQuarterTorusMesh"],
       [op |-> "glBindTexture", v |-> <<0>>, tag |-> ""],
       [op |-> "SetTransformations", v |-> <<500, 30000, 500, 0, 0, 0, 25000, 7500, -35000>>, tag |-> ""],
       [op |-> "SetTextureUVScale", v |-> <<1000, 1000>>, tag |-> ""],
       [op |-> "SetShaderTexture", v |-> <<>>, tag |-> "steelTexture"],
       [op |-> "Draw", v |-> <<>>, tag |-> "DrawCylinderMesh"],
       [op |-> "SetTransformations", v |-> <<500, 30000, 500, 0, 0, 0, -25000, 7500, -35000>>, tag |-> ""],
       [op |-> "SetTextureUVScale", v |-> <<1000, 1000>>, tag |-> ""],
       [op |-> "SetShaderTexture", v |-> <<>>, tag |-> "steelTexture"],
       [op |-> "Draw", v |-> <<>>, tag |-> "DrawCylinderMesh"],
       [op |-> "SetTransformations", v |-> <<500, 47500, 500, 0, 0, 90, 23750, 39500, -35000>>, tag |-> ""],
       [op |-> "SetTextureUVScale", v |-> <<1000, 1000>>, tag |-> ""],
       [op |-> "SetShaderTexture", v |-> <<>>, tag |-> "steelTexture"],
       [op |-> "Draw", v |-> <<>>, tag |-> "DrawCylinderMesh"],
       [op |-> "SetTransformations", v |-> <<2000, 2000, 1750, 0, 0, 0, 23000, 37500, -35000>>, tag |-> ""],
       [op |-> "SetTextureUVScale", v |-> <<1000, 1000>>, tag |-> ""],
       [op |-> "SetShaderTexture", v |-> <<>>, tag |-> "steelTexture"],
       [op |-> "Draw", v |-> <<2000>>, tag |-> "DrawQuarterTorusMesh"],
       [op |-> "glBindTexture", v |-> <<0>>, tag |-> ""],
       [op |-> "SetTransformations", v |-> <<2000, 2000, 1750, 0, 0, 90, -23000, 37500, -35000>>, tag |-> ""],
       [op |-> "SetTextureUVScale", v |-> <<1000, 1000>>, tag |-> ""],
       [op |-> "SetShaderTexture", v |-> <<>>, tag |-> "steelTexture"],
       [op |-> "Draw", v |-> <<2000>>, tag |-> "DrawQuarterTorusMesh"],
       [op |-> "glBindTexture", v |-> <<0>>, tag |-> ""],
       [op |-> "SetTransformations", v |-> <<7500, 7500, 7500, 0, 0, 0, 42500, 15000, -35000>>, tag |-> ""],
       [op |-> "SetTextureUVScale", v |-> <<5000, 5000>>, tag |-> ""],
       [op |-> "SetShaderTexture", v |-> <<>>, tag |-> "bluePlastic"],
       [op |-> "Draw", v |-> <<>>, tag |-> "DrawSphereMesh"],
       [op |-> "glBindTexture", v |-> <<0>>, tag |-> ""],
       [op |-> "SetTransformations", v |-> <<7500, 7500, 7500, 0, 0, 0, 42500, 30000, -35000>>, tag |-> ""],
       [op |-> "SetTextureUVScale", v |-> <<5000, 5000>>, tag |-> ""],
       [op |-> "SetShaderTexture", v |-> <<>>, tag |-> "ltbluePlastic"],
       [op |-> "Draw", v |-> <<>>, tag |-> "DrawSphereMesh"],
       [op |-> "glBindTexture", v |-> <<0>>, tag |-> ""],
       [op |-> "SetTransformations", v |-> <<7500, 7500, 7500, 0, 0, 0, 42500, 45000, -35000>>, tag |-> ""],
       [op |-> "SetTextureUVScale", v |-> <<5000, 5000>>, tag |-> ""],
       [op |-> "SetShaderTexture", v |-> <<>>, tag |-> "greenPlastic"],
       [op |-> "Draw", v |-> <<>>, tag |-> "DrawSphereMesh"],
       [op |-> "glBindTexture", v |-> <<0>>, tag |-> ""],
       [op |-> "SetTransformations", v |-> <<7500, 7500, 7500, 0, 0, 0, -42500, 15000, -35000>>, tag |-> ""],
       [op |-> "SetTextureUVScale", v |-> <<5000, 5000>>, tag |-> ""],
       [op |-> "SetShaderTexture", v |-> <<>>, tag |-> "redPlastic"],
       [op |-> "Draw", v |-> <<>>, tag |-> "DrawSphereMesh"],
       [op |-> "glBindTexture", v |-> <<0>>, tag |-> ""],
       [op |-> "SetTransformations", v |-> <<7500, 7500, 7500, 0, 0, 0, -42500, 30000, -35000>>, tag |-> ""],
       [op |-> "SetTextureUVScale", v |-> <<5000, 5000>>, tag |-> ""],
       [op |-> "SetShaderTexture", v |-> <<>>, tag |-> "orangePlastic"],
       [op |-> "Draw", v |-> <<>>, tag |-> "DrawSphereMesh"],
       [op |-> "glBindTexture", v |-> <<0>>, tag |-> ""],
       [op |-> "SetTransformations", v |-> <<7500, 7500, 7500, 0, 0, 0, 23750, 15000, -35000>>, tag |-> ""],
       [op |-> "SetTextureUVScale", v |-> <<5000, 5000>>, tag |-> ""],
       [op |-> "SetShaderTexture", v |-> <<>>, tag |-> "magentaPlastic"],
       [op |-> "Draw", v |-> <<>>, tag |-> "DrawSphereMesh"],
       [op |-> "glBindTexture", v |-> <<0>>, tag |-> ""],
       [op |-> "SetTransformations", v |-> <<7500, 7500, 7500, 0, 0, 0, 23750, 30000, -35000>>, tag |-> ""],
       [op |-> "SetTextureUVScale", v |-> <<5000, 5000>>, tag |-> ""],
       [op |-> "SetShaderTexture", v |-> <<>>, tag |-> "redPlastic"],
       [op |-> "Draw", v |-> <<>>, tag |-> "DrawSphereMesh"],
       [op |-> "glBindTexture", v |-> <<0>>, tag |-> ""],
       [op |-> "SetTransformations", v |-> <<7500, 7500, 7500, 0, 0, 0, 7500, 39500, -35000>>, tag |-> ""],
       [op |-> "SetTextureUVScale", v |-> <<5000, 5000>>, tag |-> ""],
       [op |-> "SetShaderTexture", v |-> <<>>, tag |-> "orangePlastic"],
       [op |-> "Draw", v |-> <<>>, tag |-> "DrawSphereMesh"],
       [op |-> "glBindTexture", v |-> <<0>>, tag |-> ""],
       [op |-> "SetTransformations", v |-> <<7500, 7500, 7500, 0, 0, 0, -7500, 39500, -35000>>, tag |-> ""],
       [op |-> "SetTextureUVScale", v |-> <<5000, 5000>>, tag |-> ""],
       [op |-> "SetShaderTexture", v |-> <<>>, tag |-> "greenPlastic"],
       [op |-> "Draw", v |-> <<>>, tag |-> "DrawSphereMesh"],
       [op |-> "glBindTexture", v |-> <<0>>, tag |-> ""],
       [op |-> "SetTransformations", v |-> <<7500, 7500, 7500, 0, 0, 0, -23750, 15000, -35000>>, tag |-> ""],
       [op |-> "SetTextureUVScale", v |-> <<5000, 5000>>, tag |-> ""],
       [op |-> "SetShaderTexture", v |-> <<>>, tag |-> "ltbluePlastic"],
       [op |-> "Draw", v |-> <<>>, tag |-> "DrawSphereMesh"],
       [op |-> "glBindTexture", v |-> <<0>>, tag |-> ""],
       [op |-> "SetTransformations", v |-> <<20000, 20000, 20000, 0, 15, 0, -7500, 10000, 7500>>, tag |-> ""],
       [op |-> "SetTextureUVScale", v |-> <<10000, 10000>>, tag |-> ""],
       [op |-> "SetShaderTexture", v |-> <<>>, tag |-> "ashWood"],
       [op |-> "Draw", v |-> <<>>, tag |-> "DrawBoxMesh"],
       [op |-> "SetTransformations", v |-> <<20100, 20100, 20100, 0, 15, 0, -7501, 10100, 7501>>, tag |-> ""],
       [op |-> "SetTextureUVScale", v |-> <<10000, 10000>>, tag |-> ""],
       [op |-> "SetShaderTexture", v |-> <<>>, tag |-> "letterA"],
       [op |-> "Draw", v |-> <<>>, tag |-> "DrawBoxMesh"],
       [op |-> "glPolygonOffset", v |-> <<-10000, -10000>>, tag |-> ""],
       [op |-> "glBindTexture", v |-> <<0>>, tag |-> ""],
       [op |-> "SetTransformations", v |-> <<20000, 20000, 20000, 0, 45, 0, 20000, 10000, 0>>, tag |-> ""],
       [op |-> "SetTextureUVScale", v |-> <<10000, 10000>>, tag |-> ""],
       [op |-> "SetShaderTexture", v |-> <<>>, tag |-> "ashWood"],
       [op |-> "Draw", v |-> <<>>, tag |-> "DrawBoxMesh"],
       [op |-> "SetTransformations", v |-> <<20100, 20100, 20100, 0, 45, 0, 20100, 10100, 100>>, tag |-> ""],
       [op |-> "SetTextureUVScale", v |-> <<10000, 10000>>, tag |-> ""],
       [op |-> "SetShaderTexture", v |-> <<>>, tag |-> "letterB"],
       [op |-> "Draw", v |-> <<>>, tag |-> "DrawBoxMesh"],
       [op |-> "glPolygonOffset", v |-> <<-10000, -10000>>, tag |-> ""],
       [op |-> "glBindTexture", v |-> <<0>>, tag |-> ""],
       [op |-> "SetTransformations", v |-> <<20000, 20000, 20000, 0, 25, 0, 7500, 30000, 7500>>, tag |-> ""],
       [op |-> "SetTextureUVScale", v |-> <<10000, 10000>>, tag |-> ""],
       [op |-> "SetShaderTexture", v |-> <<>>, tag |-> "ashWood"],
       [op |-> "Draw", v |-> <<>>, tag |-> "DrawBoxMesh"],
       [op |-> "SetTransformations", v |-> <<20100, 20100, 20100, 0, 25, 0, 7501, 30100, 7501>>, tag |-> ""],
       [op |-> "SetShaderTexture", v |-> <<>>, tag |-> "letterC"],
       [op |-> "Draw", v |-> <<>>, tag |-> "DrawBoxMesh"],
       [op |-> "glPolygonOffset", v |-> <<-10000, -10000>>, tag |-> ""],
       [op |-> "glBindTexture", v |-> <<0>>, tag |-> ""] >>

\* a RenderScene that sets no colour before it draws
RenderSceneWithoutColor(rev) ==
    LET calls == CASE rev = "M3" -> RenderSceneM3
                   [] rev = "M4" -> RenderSceneM4
                   [] rev = "M7" -> RenderSceneM7
        kept(s) == s.op # "SetShaderColor"
    IN  SelectSeq(calls, kept)

\* the calls of the RenderScene of a revision
RenderSceneCalls(rev) ==
    CASE rev = "M3" -> RenderSceneM3
      [] rev = "M4" -> RenderSceneM4
      [] rev = "M7" -> RenderSceneM7

\* one call of RenderScene
Execute(st, s) ==
    CASE s.op = "SetTransformations" ->
           SetTransformations(st, SubSeq(s.v, 1, 3), s.v[4], s.v[5], s.v[6],
                              SubSeq(s.v, 7, 9))
      [] s.op = "SetShaderColor" -> SetShaderColor(st, s.v)
      [] s.op = "SetShaderTexture" -> SetShaderTexture(st, s.tag)
      [] s.op = "SetTextureUVScale" -> SetTextureUVScale(st, s.v[1], s.v[2])
      [] s.op = "Draw" -> [st EXCEPT !.meshes = Append(@, s.tag)]
      [] s.op = "glBindTexture" -> glBindTexture(st, s.v[1])
      [] s.op = "glPolygonOffset" -> st

\* SceneManager::PrepareScene of the revision that runs
PrepareSceneOf(rev, st, outcome) ==
    CASE rev = "M7" -> PrepareScene(st, outcome)
      [] rev = "M4" -> [st EXCEPT !.meshes = @ \o SceneMeshCallsM4]
      [] rev = "M3" -> [st EXCEPT !.meshes = @ \o SceneMeshCallsM3]

-----------------------------------------------------------------------------
\* The calls made on the object

\* the registry as a call finds it
Snapshot ==
    [n |-> m_loadedTextures, gen |-> glGenCount, entries |-> m_textureIDs,
     beyond |-> beyond, materials |-> m_objectMaterials,
     bound |-> glBound, active |-> glActive, uniforms |-> uniforms,
     img |-> imageLive, pc |-> pc,
     slot |-> [t \in CheckedTags |-> FindTextureSlot(t)],
     id |-> [t \in CheckedTags |-> FindTextureID(t)]]

\* the uniforms of a shader program nothing has been uploaded to
NoUniforms ==
    [name \in {"model", "objectColor", "bUseTexture", "objectTexture", "UVscale"}
                 \cup MaterialUniforms
        |-> << >>]

NoStatement == [op |-> "", v |-> << >>, tag |-> ""]

NoCall ==
    [op |-> "constructor", file |-> "", tag |-> "", returned |-> TRUE,
     ret |-> FALSE, val |-> 0]

Init ==
    /\ m_textureIDs = Constructed.ids
    /\ m_loadedTextures = Constructed.n
    /\ m_objectMaterials = << >>
    /\ m_pShaderManager = "shader"
    /\ m_basicMeshes = "meshes"
    /\ beyond = << >>
    /\ pc = "live"
    /\ glGenCount = 0
    /\ glDeleted = {}
    /\ glActive = 0
    /\ glBound = [u \in 0..(MaxTextures - 1) |-> 0]
    /\ imageLive = 0
    /\ meshCalls = << >>
    /\ registered = << >>
    /\ material = Material("", 0)
    /\ materialBefore = Material("", 0)
    /\ last = NoCall
    /\ fs \in FileSystems
    /\ directCalls = 0
    /\ prepares = 0
    /\ revision = "M7"
    /\ uniforms = NoUniforms
    /\ rpc = 0
    /\ frame = 0
    /\ stmt = NoStatement
    /\ log = << >>
    /\ draws = << >>
    /\ appearance = << >>
    /\ pre = Snapshot

CallCreateGLTexture(filename, tag) ==
    /\ pc = "live"
    /\ directCalls < MaxDirectCalls
    /\ \E outcome \in OobOutcomes :
         LET st == CreateGLTexture(Cur, filename, tag, outcome)
         IN  /\ Install(st)
             /\ last' = [op |-> "CreateGLTexture", file |-> filename, tag |-> tag,
                         returned |-> st.returned, ret |-> st.ret, val |-> 0]
    /\ pre' = Snapshot
    /\ directCalls' = IF stbi_load(filename) = 0 THEN directCalls ELSE directCalls + 1
    /\ UNCHANGED <<m_objectMaterials, m_pShaderManager, m_basicMeshes, glDeleted,
                   material, materialBefore, fs, prepares>>
    /\ UNCHANGED scriptVars

CallPrepareScene ==
    /\ pc = "live"
    /\ prepares < MaxPrepares
    /\ \E outcome \in OobOutcomes :
         LET st == PrepareScene(Cur, outcome)
         IN  /\ Install(st)
             /\ last' = [op |-> "PrepareScene", file |-> "", tag |-> "",
                         returned |-> (st.pc # "crashed"), ret |-> FALSE, val |-> 0]
    /\ pre' = Snapshot
    /\ prepares' = prepares + 1
    /\ UNCHANGED <<m_objectMaterials, m_pShaderManager, m_basicMeshes, glDeleted,
                   material, materialBefore, fs, directCalls>>
    /\ UNCHANGED scriptVars

CallFindTextureSlot(tag) ==
    /\ pc = "live"
    /\ last' = [op |-> "FindTextureSlot", file |-> "", tag |-> tag,
                returned |-> TRUE, ret |-> FALSE, val |-> FindTextureSlot(tag)]
    /\ pre' = Snapshot
    /\ UNCHANGED <<m_textureIDs, m_loadedTextures, m_objectMaterials,
                   m_pShaderManager, m_basicMeshes, beyond, pc, glGenCount,
                   glDeleted, glActive, glBound, imageLive, meshCalls, registered,
                   material, materialBefore, fs, directCalls, prepares>>
    /\ UNCHANGED <<uniforms, scriptVars>>

CallFindTextureID(tag) ==
    /\ pc = "live"
    /\ last' = [op |-> "FindTextureID", file |-> "", tag |-> tag,
                returned |-> TRUE, ret |-> FALSE, val |-> FindTextureID(tag)]
    /\ pre' = Snapshot
    /\ UNCHANGED <<m_textureIDs, m_loadedTextures, m_objectMaterials,
                   m_pShaderManager, m_basicMeshes, beyond, pc, glGenCount,
                   glDeleted, glActive, glBound, imageLive, meshCalls, registered,
                   material, materialBefore, fs, directCalls, prepares>>
    /\ UNCHANGED <<uniforms, scriptVars>>

\* SceneManager::~SceneManager
Destructor ==
    /\ pc = "live"
    /\ m_pShaderManager' = "NULL"
    /\ m_basicMeshes' = "NULL"
    /\ Install([DestroyGLTextures(Cur) EXCEPT !.pc = "destroyed"])
    /\ last' = [op |-> "~SceneManager", file |-> "", tag |-> "",
                returned |-> TRUE, ret |-> FALSE, val |-> 0]
    /\ pre' = Snapshot
    /\ UNCHANGED <<m_objectMaterials, glDeleted, material, materialBefore, fs,
                   directCalls, prepares>>
    /\ UNCHANGED scriptVars

CallFindMaterial(tag, mat) ==
    /\ pc = "live"
    /\ materialBefore' = mat
    /\ material' = FindMaterial(tag, mat).material
    /\ last' = [op |-> "FindMaterial", file |-> "", tag |-> tag,
                returned |-> TRUE, ret |-> FindMaterial(tag, mat).ret, val |-> 0]
    /\ pre' = Snapshot
    /\ UNCHANGED <<m_textureIDs, m_loadedTextures, m_objectMaterials,
                   m_pShaderManager, m_basicMeshes, beyond, pc, glGenCount,
                   glDeleted, glActive, glBound, imageLive, meshCalls, registered,
                   fs, directCalls, prepares>>
    /\ UNCHANGED <<uniforms, scriptVars>>

Next ==
    \/ \E filename \in DirectFiles, tag \in DirectTags :
         CallCreateGLTexture(filename, tag)
    \/ CallPrepareScene
    \/ \E tag \in LookupTags : CallFindTextureSlot(tag)
    \/ \E tag \in LookupTags : CallFindTextureID(tag)
    \/ Destructor

Spec == Init /\ [][Next]_vars

\* FindMaterial over the material lists a scene can define
InitMaterials ==
    /\ m_textureIDs = Constructed.ids
    /\ m_loadedTextures = Constructed.n
    /\ m_objectMaterials \in MaterialLists
    /\ m_pShaderManager \in {"shader", "NULL"}
    /\ m_basicMeshes = "meshes"
    /\ beyond = << >>
    /\ pc = "live"
    /\ glGenCount = 0
    /\ glDeleted = {}
    /\ glActive = 0
    /\ glBound = [u \in 0..(MaxTextures - 1) |-> 0]
    /\ imageLive = 0
    /\ meshCalls = << >>
    /\ registered = << >>
    /\ material = Material("", 0)
    /\ materialBefore = Material("", 0)
    /\ last = NoCall
    /\ fs = FileSystem({}, {})
    /\ directCalls = 0
    /\ prepares = 0
    /\ revision = "M7"
    /\ uniforms = NoUniforms
    /\ rpc = 0
    /\ frame = 0
    /\ stmt = NoStatement
    /\ log = << >>
    /\ draws = << >>
    /\ appearance = << >>
    /\ pre = Snapshot

CallSetShaderMaterial(materialTag, local) ==
    /\ pc = "live"
    /\ \E outcome \in NullOutcomes :
         \E st \in {SetShaderMaterial(Cur, materialTag, local, outcome)} :
            /\ Install(st)
            /\ last' = [op |-> "SetShaderMaterial", file |-> "", tag |-> materialTag,
                        returned |-> (st.pc # "crashed"), ret |-> FALSE, val |-> 0]
    /\ materialBefore' = local
    /\ material' = FindMaterial(materialTag, local).material
    /\ pre' = Snapshot
    /\ UNCHANGED <<m_objectMaterials, m_pShaderManager, m_basicMeshes, glDeleted,
                   fs, directCalls, prepares>>
    /\ UNCHANGED scriptVars

NextMaterials ==
    \/ \E tag \in MaterialLookupTags, mat \in CallerMaterials :
          CallFindMaterial(tag, mat)
    \/ \E tag \in MaterialLookupTags, local \in CallerMaterials :
          CallSetShaderMaterial(tag, local)

SpecMaterials == InitMaterials /\ [][NextMaterials]_vars

\* SetTransformations called directly, in each revision
InitTransform ==
    /\ m_textureIDs = Constructed.ids
    /\ m_loadedTextures = Constructed.n
    /\ m_objectMaterials = << >>
    /\ m_pShaderManager = "shader"
    /\ m_basicMeshes = "meshes"
    /\ beyond = << >>
    /\ pc = "live"
    /\ glGenCount = 0
    /\ glDeleted = {}
    /\ glActive = 0
    /\ glBound = [u \in 0..(MaxTextures - 1) |-> 0]
    /\ imageLive = 0
    /\ meshCalls = << >>
    /\ registered = << >>
    /\ material = Material("", 0)
    /\ materialBefore = Material("", 0)
    /\ last = NoCall
    /\ fs = FileSystem({}, {})
    /\ directCalls = 0
    /\ prepares = 0
    /\ revision \in Revisions
    /\ uniforms = NoUniforms
    /\ rpc = 0
    /\ frame = 0
    /\ stmt = NoStatement
    /\ log = << >>
    /\ draws = << >>
    /\ appearance = << >>
    /\ pre = Snapshot

CallSetTransformations(scaleXYZ, XrotationDegrees, YrotationDegrees, ZrotationDegrees, positionXYZ) ==
    /\ pc = "live"
    /\ rpc = 0
    /\ \E st \in {SetTransformations(Cur, scaleXYZ, XrotationDegrees,
                                      YrotationDegrees, ZrotationDegrees,
                                      positionXYZ)} : Install(st)
    /\ stmt' = [op |-> "SetTransformations",
                v |-> scaleXYZ \o <<XrotationDegrees, YrotationDegrees,
                                    ZrotationDegrees>> \o positionXYZ,
                tag |-> ""]
    /\ last' = [op |-> "SetTransformations", file |-> "", tag |-> "",
                returned |-> TRUE, ret |-> FALSE, val |-> 0]
    /\ UNCHANGED <<m_objectMaterials, m_pShaderManager, m_basicMeshes, glDeleted,
                   material, materialBefore, pre, fs, directCalls, prepares,
                   revision, rpc, frame, log, draws, appearance>>

NextTransform ==
    \E s \in TransformScales, x, y, z \in TransformAngles, p \in TransformPositions :
        CallSetTransformations([i \in 1..3 |-> Fixed(s[i])], x, y, z,
                               [i \in 1..3 |-> Fixed(p[i])])

SpecTransform == InitTransform /\ [][NextTransform]_vars

\* The application: one PrepareScene, then RenderScene frame after frame
InitRender ==
    /\ m_textureIDs = Constructed.ids
    /\ m_loadedTextures = Constructed.n
    /\ m_objectMaterials = << >>
    /\ m_pShaderManager \in {"shader", "NULL"}
    /\ m_basicMeshes = "meshes"
    /\ beyond = << >>
    /\ pc = "live"
    /\ glGenCount = 0
    /\ glDeleted = {}
    /\ glActive = 0
    /\ glBound = [u \in 0..(MaxTextures - 1) |-> 0]
    /\ imageLive = 0
    /\ meshCalls = << >>
    /\ registered = << >>
    /\ material = Material("", 0)
    /\ materialBefore = Material("", 0)
    /\ last = NoCall
    /\ fs \in FileSystems
    /\ directCalls = 0
    /\ prepares = 0
    /\ revision \in Revisions
    /\ uniforms = NoUniforms
    /\ rpc = 0
    /\ frame = 0
    /\ stmt = NoStatement
    /\ log = << >>
    /\ draws = << >>
    /\ appearance = << >>
    /\ pre = Snapshot

\* PrepareScene, called once before the first frame
StartupPrepareScene ==
    /\ pc = "live"
    /\ rpc = 0 /\ frame = 0
    /\ prepares = 0
    /\ \E outcome \in OobOutcomes :
         \E st \in {PrepareSceneOf(revision, Cur, outcome)} :
            /\ Install(st)
            /\ last' = [op |-> "PrepareScene", file |-> "", tag |-> "",
                        returned |-> (st.pc # "crashed"), ret |-> FALSE, val |-> 0]
    /\ stmt' = [op |-> "PrepareScene", v |-> << >>, tag |-> ""]
    /\ pre' = Snapshot
    /\ prepares' = prepares + 1
    /\ UNCHANGED <<m_objectMaterials, m_pShaderManager, m_basicMeshes, glDeleted,
                   material, materialBefore, fs, directCalls,
                   revision, rpc, frame, log, draws, appearance>>

\* RenderScene is entered: its locals are declared
BeginRenderScene ==
    /\ pc = "live"
    /\ prepares >= 1
    /\ rpc = 0
    /\ frame < MaxFrames
    /\ rpc' = 1
    /\ frame' = frame + 1
    /\ log' = << >>
    /\ draws' = Append(draws, << >>)
    /\ appearance' = Append(appearance, << >>)
    /\ stmt' = [op |-> "RenderScene", v |-> << >>, tag |-> ""]
    /\ last' = [op |-> "RenderScene", file |-> "", tag |-> "",
                returned |-> FALSE, ret |-> FALSE, val |-> 0]
    /\ pre' = Snapshot
    /\ UNCHANGED <<m_textureIDs, m_loadedTextures, m_objectMaterials,
                   m_pShaderManager, m_basicMeshes, beyond, pc, glGenCount,
                   glDeleted, glActive, glBound, imageLive, meshCalls, registered,
                   material, materialBefore, fs, directCalls, prepares,
                   revision, uniforms>>

\* the appearance uniforms as the shader has them
Appearance ==
    [name \in {"bUseTexture", "objectColor", "objectTexture", "UVscale"}
        |-> uniforms[name]]

\* what the log keeps of a call: the call, and the slot a SetShaderTexture
\* looked up
Logged(s) ==
    [op |-> s.op, v |-> s.v, tag |-> s.tag,
     slot |-> IF s.op = "SetShaderTexture" /\ m_pShaderManager # "NULL"
              THEN FindTextureSlot(s.tag) ELSE NotFound]

\* RenderScene makes its next call; after the last one it returns
StepRenderScene ==
    /\ pc = "live"
    /\ rpc \in 1..Len(RenderSceneCalls(revision))
    /\ \E s \in {RenderSceneCalls(revision)[rpc]} :
         /\ \E st \in {Execute(Cur, s)} : Install(st)
         /\ stmt' = s
         /\ last' = [op |-> s.op, file |-> "", tag |-> s.tag,
                     returned |-> TRUE, ret |-> FALSE, val |-> Logged(s).slot]
         /\ log' = IF s.op = "Draw" THEN << >> ELSE Append(log, Logged(s))
         /\ draws' = IF s.op = "Draw"
                     THEN [draws EXCEPT ![frame] =
                              Append(@, [mesh |-> s.tag, v |-> s.v,
                                         model |-> uniforms.model, calls |-> log])]
                     ELSE draws
         /\ appearance' = IF s.op = "Draw"
                          THEN [appearance EXCEPT ![frame] = Append(@, Appearance)]
                          ELSE appearance
    /\ rpc' = IF rpc = Len(RenderSceneCalls(revision)) THEN 0 ELSE rpc + 1
    /\ pre' = Snapshot
    /\ UNCHANGED <<m_objectMaterials, m_pShaderManager, m_basicMeshes, glDeleted,
                   material, materialBefore, fs, directCalls, prepares,
                   revision, frame>>

NextRender ==
    \/ StartupPrepareScene
    \/ BeginRenderScene
    \/ StepRenderScene

SpecRender == InitRender /\ [][NextRender]_vars

\* Textures registered, bound and selected by direct calls, in the two
\* revisions that define SetShaderTexture
InitTextureUse ==
    /\ revision \in {"M4", "M7"}
    /\ \E object \in (IF revision = "M4" THEN ConstructedM4 ELSE {Constructed}) :
          /\ m_textureIDs = object.ids
          /\ m_loadedTextures = object.n
    /\ m_objectMaterials = << >>
    /\ m_pShaderManager \in {"shader", "NULL"}
    /\ m_basicMeshes = "meshes"
    /\ beyond = << >>
    /\ pc = "live"
    /\ glGenCount = 0
    /\ glDeleted = {}
    /\ glActive = 0
    /\ glBound = [u \in 0..(MaxTextures - 1) |-> 0]
    /\ imageLive = 0
    /\ meshCalls = << >>
    /\ registered = << >>
    /\ material = Material("", 0)
    /\ materialBefore = Material("", 0)
    /\ last = NoCall
    /\ fs = FileSystem({}, {})
    /\ directCalls = 0
    /\ prepares = 0
    /\ uniforms = NoUniforms
    /\ rpc = 0
    /\ frame = 0
    /\ stmt = NoStatement
    /\ log = << >>
    /\ draws = << >>
    /\ appearance = << >>
    /\ pre = Snapshot

\* CreateGLTexture, for the few textures the calls below work with
RegisterTexture(filename, tag) ==
    /\ directCalls < MaxUseTextures
    /\ CallCreateGLTexture(filename, tag)

CallBindGLTextures ==
    /\ pc = "live"
    /\ \E st \in {BindGLTextures(Cur)} : Install(st)
    /\ last' = [op |-> "BindGLTextures", file |-> "", tag |-> "",
                returned |-> TRUE, ret |-> FALSE, val |-> 0]
    /\ pre' = Snapshot
    /\ UNCHANGED <<m_objectMaterials, m_pShaderManager, m_basicMeshes, glDeleted,
                   material, materialBefore, fs, directCalls, prepares>>
    /\ UNCHANGED scriptVars

CallSetShaderTexture(textureTag) ==
    /\ pc = "live"
    /\ \E st \in {SetShaderTexture(Cur, textureTag)} : Install(st)
    /\ last' = [op |-> "SetShaderTexture", file |-> "", tag |-> textureTag,
                returned |-> TRUE, ret |-> FALSE, val |-> FindTextureSlot(textureTag)]
    /\ pre' = Snapshot
    /\ UNCHANGED <<m_objectMaterials, m_pShaderManager, m_basicMeshes, glDeleted,
                   material, materialBefore, fs, directCalls, prepares>>
    /\ UNCHANGED scriptVars

NextTextureUse ==
    \/ \E filename \in UseFiles, tag \in DirectTags : RegisterTexture(filename, tag)
    \/ CallBindGLTextures
    \/ \E tag \in UseTags : CallSetShaderTexture(tag)

SpecTextureUse == InitTextureUse /\ [][NextTextureUse]_vars

-----------------------------------------------------------------------------
\* Properties of the texture registry


\* the indices of the registered entries tagged t
Matches(t) == {i \in 0..(m_loadedTextures - 1) : Registered(i).tag = t}

\* the lowest of them
FirstMatch(t) == CHOOSE i \in Matches(t) : \A j \in Matches(t) : i <= j

\* a call of CreateGLTexture with an image that decodes to 3 or 4 channels
CreatedFromGoodImage ==
    last.op = "CreateGLTexture" /\ fs[last.file] \in {3, 4}

\* C1: after 16 successful registrations a 17th CreateGLTexture with a
\* decodable 3- or 4-channel image returns false, leaves m_loadedTextures at
\* 16 and writes to no index outside 0..15.
C1_SeventeenthFailsCleanly ==
    (CreatedFromGoodImage /\ pre.n = MaxTextures)
        => /\ last.returned
           /\ last.ret = FALSE
           /\ m_loadedTextures = MaxTextures
           /\ DOMAIN beyond = {}
           /\ pc = "live"

\* C2: for every registration that returned true, FindTextureSlot of its tag
\* returns the slot the entry was stored at, whatever was registered since.
C2_LookupReturnsRegisteredSlot ==
    \A k \in 1..Len(registered) :
        FindTextureSlot(registered[k].tag) = registered[k].slot

\* C3: a CreateGLTexture call whose image cannot be decoded or has a channel
\* count other than 3 or 4 returns false and leaves m_loadedTextures, every
\* entry and the result of every lookup as they were.
C3_FailedCreateAddsNothing ==
    (last.op = "CreateGLTexture" /\ fs[last.file] \notin {3, 4})
        => /\ last.returned
           /\ last.ret = FALSE
           /\ m_loadedTextures = pre.n
           /\ m_textureIDs = pre.entries
           /\ beyond = pre.beyond
           /\ \A t \in CheckedTags :
                 /\ FindTextureSlot(t) = pre.slot[t]
                 /\ FindTextureID(t) = pre.id[t]

\* a call rejected for its channel count, made on a registry that holds entries
C3_Witness ==
    /\ last.op = "CreateGLTexture"
    /\ fs[last.file] = 1
    /\ last.returned /\ last.ret = FALSE
    /\ m_loadedTextures >= 2
    /\ m_loadedTextures = pre.n

\* C4: CreateGLTexture returns false exactly when the image cannot be decoded
\* or has a channel count other than 3 or 4, and returns true, having stored
\* the tag in the slot that was next, for every other image.
C4_ReturnsTrueExactlyForGoodImages ==
    last.op = "CreateGLTexture"
        => /\ last.returned
           /\ last.ret = (fs[last.file] \in {3, 4})
           /\ last.ret => /\ pre.n \in DOMAIN m_textureIDs
                          /\ m_loadedTextures = pre.n + 1
                          /\ m_textureIDs[pre.n].tag = last.tag

\* C5: the tags of the registered entries are pairwise distinct.
C5_TagsPairwiseDistinct ==
    \A i, j \in 0..(m_loadedTextures - 1) :
        i # j => Registered(i).tag # Registered(j).tag

\* C6: m_loadedTextures is in 0..16 and FindTextureSlot returns -1 or a slot in
\* [0,16) below m_loadedTextures.
C6_SlotsWithinCapacity ==
    /\ m_loadedTextures \in 0..MaxTextures
    /\ \A t \in CheckedTags :
          \/ FindTextureSlot(t) = -1
          \/ /\ FindTextureSlot(t) \in 0..(MaxTextures - 1)
             /\ FindTextureSlot(t) < m_loadedTextures

\* C7: registering a texture does not disturb the entries of other tags:
\* after a CreateGLTexture call FindTextureSlot and FindTextureID of every
\* other tag return what they returned before it (after PrepareScene, of every
\* tag it does not register), and after "A" then "B" on an empty registry
\* FindTextureSlot("A") is 0 and FindTextureID("A") is A's handle.
C7_OtherTagsUndisturbed ==
    /\ last.op = "CreateGLTexture"
          => \A t \in CheckedTags \ {last.tag} :
                /\ FindTextureSlot(t) = pre.slot[t]
                /\ FindTextureID(t) = pre.id[t]
    /\ last.op = "PrepareScene"
          => \A t \in CheckedTags \ SceneTags :
                /\ FindTextureSlot(t) = pre.slot[t]
                /\ FindTextureID(t) = pre.id[t]
    /\ (/\ Len(registered) >= 2
        /\ registered[1].tag = "A"
        /\ registered[2].tag = "B")
          => /\ FindTextureSlot("A") = 0
             /\ pc # "destroyed" => FindTextureID("A") = registered[1].ID

\* "B" has just been registered after "A" on an empty registry
C7_Witness ==
    /\ last.op = "CreateGLTexture" /\ last.tag = "B" /\ last.ret
    /\ Len(registered) = 2
    /\ registered[1].tag = "A" /\ registered[1].slot = 0
    /\ FindTextureSlot("A") = 0

\* C8: FindTextureSlot and FindTextureID return the index and the ID of the
\* lowest-indexed registered entry whose tag equals the argument, and -1 when
\* no registered entry has that tag.
C8_LookupReturnsFirstMatch ==
    /\ \A t \in CheckedTags :
          IF Matches(t) = {}
          THEN FindTextureSlot(t) = -1 /\ FindTextureID(t) = -1
          ELSE /\ FindTextureSlot(t) = FirstMatch(t)
               /\ FindTextureID(t) = Registered(FirstMatch(t)).ID
    /\ last.op = "FindTextureSlot"
          => last.val = (IF Matches(last.tag) = {} THEN -1 ELSE FirstMatch(last.tag))
    /\ last.op = "FindTextureID"
          => last.val = (IF Matches(last.tag) = {} THEN -1
                         ELSE Registered(FirstMatch(last.tag)).ID)

\* a lookup of a tag that two entries carry has returned the lower index
C8_Witness ==
    /\ last.op = "FindTextureSlot"
    /\ Cardinality(Matches(last.tag)) >= 2
    /\ last.val = FirstMatch(last.tag)
    /\ last.val > 0

C10_TeardownReleasesHandles ==
    last.op = "~SceneManager"
        => /\ \A k \in 1..Len(registered) : registered[k].ID \in glDeleted
           /\ glGenCount = pre.gen

-----------------------------------------------------------------------------
\* Properties of SetTransformations

\* the arguments of the SetTransformations call made last; a scale and a
\* position of whole numbers are taken as such
scaleArg == [i \in 1..3 |-> stmt.v[i] \div Fixed(1)]
xArg == stmt.v[4]
yArg == stmt.v[5]
zArg == stmt.v[6]
positionArg == [i \in 1..3 |-> stmt.v[6 + i] \div Fixed(1)]

\* the matrix the shader holds as "model"
model == uniforms.model[1]

\* cosine and sine of a multiple of a right angle, as whole numbers
C(degrees) == cos(degrees) \div Fixed(1)
S(degrees) == sin(degrees) \div Fixed(1)

\* the factors, written out, and the product of whole-number matrices
Translate(p) ==
    << <<1, 0, 0, p[1]>>, <<0, 1, 0, p[2]>>, <<0, 0, 1, p[3]>>, <<0, 0, 0, 1>> >>
RotateX(d) ==
    << <<1, 0, 0, 0>>, <<0, C(d), -S(d), 0>>, <<0, S(d), C(d), 0>>, <<0, 0, 0, 1>> >>
RotateY(d) ==
    << <<C(d), 0, S(d), 0>>, <<0, 1, 0, 0>>, <<-S(d), 0, C(d), 0>>, <<0, 0, 0, 1>> >>
RotateZ(d) ==
    << <<C(d), -S(d), 0, 0>>, <<S(d), C(d), 0, 0>>, <<0, 0, 1, 0>>, <<0, 0, 0, 1>> >>
Scale(v) ==
    << <<v[1], 0, 0, 0>>, <<0, v[2], 0, 0>>, <<0, 0, v[3], 0>>, <<0, 0, 0, 1>> >>
Times(a, b) ==
    CHOOSE product \in
        { [i \in 1..4 |-> [j \in 1..4 |->
              x[i][1] * y[1][j] + x[i][2] * y[2][j] + x[i][3] * y[3][j]
              + x[i][4] * y[4][j]]]
          : x \in {a}, y \in {b} } : TRUE

\* a matrix and a point of whole numbers, in ten-thousandths
FixedMatrix(m) == [i \in 1..4 |-> [j \in 1..4 |-> Fixed(m[i][j])]]
FixedPoint(p) == [i \in 1..3 |-> Fixed(p[i])]

\* C11: in each revision the matrix SetTransformations uploads is
\* Translate(position) * RotateX(x) * RotateY(y) * RotateZ(z) * Scale(scale).
C11_ModelIsTRxRyRzS ==
    (stmt.op = "SetTransformations" /\ rpc = 0)
        => model = FixedMatrix(
                      Times(Translate(positionArg),
                            Times(RotateX(xArg),
                                  Times(RotateY(yArg),
                                        Times(RotateZ(zArg), Scale(scaleArg))))))

\* Module 3 has uploaded a matrix whose factors do not commute
C11_Witness ==
    /\ revision = "M3"
    /\ stmt.op = "SetTransformations"
    /\ scaleArg = <<1, 2, 3>>
    /\ xArg = 90 /\ yArg = 180 /\ zArg = 90
    /\ positionArg = <<2, 3, 4>>
    /\ uniforms.model # << >>

\* what the steps do to a point
ScalePoint(v, p) == <<v[1] * p[1], v[2] * p[2], v[3] * p[3]>>
TurnX(d, p) == <<p[1], C(d) * p[2] - S(d) * p[3], S(d) * p[2] + C(d) * p[3]>>
TurnY(d, p) == <<C(d) * p[1] + S(d) * p[3], p[2], C(d) * p[3] - S(d) * p[1]>>
TurnZ(d, p) == <<C(d) * p[1] - S(d) * p[2], S(d) * p[1] + C(d) * p[2], p[3]>>
Move(v, p) == <<p[1] + v[1], p[2] + v[2], p[3] + v[3]>>

\* the image of the mesh point p under the uploaded matrix
Image(p) ==
    [i \in 1..3 |->
        model[i][1] * p[1] + model[i][2] * p[2] + model[i][3] * p[3] + model[i][4]]

MeshPoints == { <<1, 0, 0>>, <<0, 1, 0>>, <<0, 0, 1>>, <<1, 2, 3>> }

\* C12 as stated: the uploaded matrix scales a mesh point, then rotates it
\* about X, then about Y, then about Z, and translates it last.
C12_RotatesPointXThenYThenZ ==
    (stmt.op = "SetTransformations" /\ rpc = 0)
        => \A p \in MeshPoints :
              Image(p) = FixedPoint(Move(positionArg,
                                         TurnZ(zArg, TurnY(yArg, TurnX(xArg,
                                             ScalePoint(scaleArg, p))))))

\* C12 as amended: the uploaded matrix scales a mesh point, then rotates it
\* about Z, then about Y, then about X, and translates it last.
C12_RotatesPointZThenYThenX ==
    (stmt.op = "SetTransformations" /\ rpc = 0)
        => \A p \in MeshPoints :
              Image(p) = FixedPoint(Move(positionArg,
                                         TurnX(xArg, TurnY(yArg, TurnZ(zArg,
                                             ScalePoint(scaleArg, p))))))

\* a matrix with a quarter turn about X and one about Z has been uploaded
C12_Witness ==
    /\ stmt.op = "SetTransformations"
    /\ xArg = 90 /\ yArg = 0 /\ zArg = 90
    /\ scaleArg = <<1, 2, 3>>
    /\ Image(<<1, 0, 0>>) = FixedPoint(Move(positionArg, <<0, 0, 1>>))

\* C13: with unit scale and no rotation the linear part of the uploaded
\* matrix is the identity and its translation column is the position; for
\* position (2,3,4) the column is (2,3,4).
C13_UnitScaleNoRotation ==
    (/\ stmt.op = "SetTransformations" /\ rpc = 0
     /\ scaleArg = <<1, 1, 1>>
     /\ xArg = 0 /\ yArg = 0 /\ zArg = 0)
        => /\ \A i, j \in 1..3 : model[i][j] = (IF i = j THEN Fixed(1) ELSE 0)
           /\ \A i \in 1..3 : model[i][4] = Fixed(positionArg[i])
           /\ positionArg = <<2, 3, 4>>
                 => <<model[1][4], model[2][4], model[3][4]>>
                       = <<Fixed(2), Fixed(3), Fixed(4)>>
           /\ model[4] = <<0, 0, 0, Fixed(1)>>

\* scale (1,1,1), rotation (0,0,0), position (2,3,4) has been uploaded
C13_Witness ==
    /\ stmt.op = "SetTransformations"
    /\ scaleArg = <<1, 1, 1>>
    /\ xArg = 0 /\ yArg = 0 /\ zArg = 0
    /\ positionArg = <<2, 3, 4>>
    /\ model[1][4] = Fixed(2)

\* the matrix of the same factors with rotationY before rotationX
OppositeOrder(scaleXYZ, XrotationDegrees, YrotationDegrees, ZrotationDegrees, positionXYZ) ==
    LET scale == glm_scale(scaleXYZ)
        rotationX == glm_rotate(XrotationDegrees, <<1, 0, 0>>)
        rotationY == glm_rotate(YrotationDegrees, <<0, 1, 0>>)
        rotationZ == glm_rotate(ZrotationDegrees, <<0, 0, 1>>)
        translation == glm_translate(positionXYZ)
    IN  MatMul(MatMul(MatMul(MatMul(translation, rotationY), rotationX), rotationZ),
               scale)

\* C14: for a scale whose components are not all equal, the matrix built with
\* rotateX = 90 and rotateY = 90 differs from the one the same two rotations
\* give when composed in the opposite order, RotateY * RotateX.
C14_RotationOrderMatters ==
    (/\ stmt.op = "SetTransformations" /\ rpc = 0
     /\ xArg = 90 /\ yArg = 90
     /\ ~(scaleArg[1] = scaleArg[2] /\ scaleArg[2] = scaleArg[3]))
        => model # OppositeOrder(SubSeq(stmt.v, 1, 3), xArg, yArg, zArg,
                                 SubSeq(stmt.v, 7, 9))

\* quarter turns about X and Y have been uploaded with scale (1,2,3)
C14_Witness ==
    /\ stmt.op = "SetTransformations"
    /\ xArg = 90 /\ yArg = 90 /\ zArg = 0
    /\ scaleArg = <<1, 2, 3>>
    /\ model[1][3] = Fixed(3)

-----------------------------------------------------------------------------
\* Properties of RenderScene and PrepareScene

\* C15: SetTransformations writes the "model" uniform and nothing else: the
\* texture registry, the material list, the texture-unit bindings and the
\* other uniforms are as they were before the call, and with a NULL shader
\* manager the "model" uniform is too.
C15_SetTransformationsWritesOnlyModel ==
    stmt.op = "SetTransformations"
        => /\ m_textureIDs = pre.entries
           /\ m_loadedTextures = pre.n
           /\ beyond = pre.beyond
           /\ m_objectMaterials = pre.materials
           /\ glBound = pre.bound
           /\ glActive = pre.active
           /\ glGenCount = pre.gen
           /\ \A name \in (DOMAIN uniforms) \ {"model"} :
                 uniforms[name] = pre.uniforms[name]
           /\ m_pShaderManager = "NULL" => uniforms = pre.uniforms

\* a new matrix has been uploaded over textures in use
C15_Witness ==
    /\ stmt.op = "SetTransformations"
    /\ revision = "M7"
    /\ pre.n = 13
    /\ uniforms.bUseTexture = <<1>>
    /\ uniforms.UVscale # << >>
    /\ uniforms.model # pre.uniforms.model

\* C16: every RenderScene after the first makes the draw calls the first one
\* made: the same mesh calls in the same order, each with the same model
\* matrix and after the same colour or texture-slot calls.
C16_FramesIssueSameDraws ==
    \A f \in 2..Len(draws) :
        /\ Len(draws[f]) <= Len(draws[1])
        /\ \A i \in 1..Len(draws[f]) : draws[f][i] = draws[1][i]
        /\ (f < frame \/ rpc = 0) => Len(draws[f]) = Len(draws[1])

\* the second frame of Module 7 has returned, drawn with textures
C16_Witness ==
    /\ revision = "M7"
    /\ m_pShaderManager = "shader"
    /\ frame = 2 /\ rpc = 0
    /\ Len(draws[2]) = 37
    /\ draws[2][37].model # << >>
    /\ \E k \in DOMAIN draws[2][37].calls : draws[2][37].calls[k].slot = 12

\* the mesh calls RenderScene draws with, and the tags it textures with
DrawnMeshes(rev) ==
    {RenderSceneCalls(rev)[k].tag :
        k \in {i \in DOMAIN RenderSceneCalls(rev) : RenderSceneCalls(rev)[i].op = "Draw"}}

TexturesUsed(rev) ==
    {RenderSceneCalls(rev)[k].tag :
        k \in {i \in DOMAIN RenderSceneCalls(rev) :
                  RenderSceneCalls(rev)[i].op = "SetShaderTexture"}}

\* the ShapeMeshes call that loads what a draw call draws
LoadCallOf(draw) ==
    CASE draw = "DrawPlaneMesh" -> "LoadPlaneMesh"
      [] draw = "DrawCylinderMesh" -> "LoadCylinderMesh"
      [] draw = "DrawBoxMesh" -> "LoadBoxMesh"
      [] draw = "DrawConeMesh" -> "LoadConeMesh"
      [] draw = "DrawSphereMesh" -> "LoadSphereMesh"
      [] draw = "DrawTorusMesh" -> "LoadTorusMesh"
      [] draw = "DrawExtraTorusMesh1" -> "LoadExtraTorusMesh1"
      [] draw = "DrawQuarterTorusMesh" -> "LoadQuarterTorusMesh"

Count(calls, c) == Cardinality({k \in DOMAIN calls : calls[k] = c})

\* every image file of the scene is in place and decodes
AllLoadsSucceed == \A k \in DOMAIN SceneTextures : fs[SceneTextures[k].file] \in {3, 4}

\* C17: PrepareScene loads every mesh its revision's RenderScene draws, each
\* exactly once, registers every texture RenderScene uses exactly once (the
\* image files being in place), and makes no draw call.
C17_PrepareSceneLoadsEachOnce ==
    stmt.op = "PrepareScene"
        => /\ \A d \in DrawnMeshes(revision) : Count(meshCalls, LoadCallOf(d)) = 1
           /\ \A c \in UNION {DrawnMeshes(rev) : rev \in Revisions} :
                 Count(meshCalls, c) = 0
           /\ AllLoadsSucceed
                 => \A t \in TexturesUsed(revision) : Cardinality(Matches(t)) = 1

\* C18: when all image loads succeed, every SetShaderTexture of the Module 7
\* RenderScene finds its tag registered, at a slot >= 0, and PrepareScene has
\* registered no more than 16 textures.
C18_TexturesRegisteredBeforeUse ==
    (revision = "M7" /\ AllLoadsSucceed /\ prepares = 1)
        => /\ m_loadedTextures <= MaxTextures
           /\ Len(registered) <= MaxTextures
           /\ pc = "live"
           /\ stmt.op = "SetShaderTexture"
                 => /\ FindTextureSlot(stmt.tag) >= 0
                    /\ Registered(FindTextureSlot(stmt.tag)).tag = stmt.tag
                    /\ m_pShaderManager # "NULL"
                          => /\ last.val = FindTextureSlot(stmt.tag)
                             /\ uniforms.objectTexture = <<FindTextureSlot(stmt.tag)>>

\* the last texture LoadSceneTextures registers has been looked up and found
C18_Witness ==
    /\ revision = "M7" /\ AllLoadsSucceed /\ prepares = 1
    /\ m_pShaderManager = "shader"
    /\ stmt.op = "SetShaderTexture" /\ stmt.tag = "letterC"
    /\ last.val = 12
    /\ m_loadedTextures = 13

\* C19: every draw call of RenderScene comes after exactly one
\* SetTransformations call made since the previous draw call, and after at
\* least one SetShaderColor or SetShaderTexture call made after that
\* SetTransformations.
C19_TransformThenAppearanceThenDraw ==
    \A f \in DOMAIN draws : \A i \in DOMAIN draws[f] :
        LET calls == draws[f][i].calls
            transforms == {k \in DOMAIN calls : calls[k].op = "SetTransformations"}
            appearances == {k \in DOMAIN calls :
                               calls[k].op \in {"SetShaderColor", "SetShaderTexture"}}
        IN  /\ Cardinality(transforms) = 1
            /\ appearances # {}
            /\ \A t \in transforms, a \in appearances : t < a

\* a draw has been made after an unbind, a transform, a UV scale and a texture
C19_Witness ==
    /\ stmt.op = "Draw"
    /\ frame = 2
    /\ Len(draws[frame]) >= 13
    /\ LET calls == draws[frame][Len(draws[frame])].calls
       IN  /\ Len(calls) = 4
           /\ calls[1].op = "glBindTexture"
           /\ calls[2].op = "SetTransformations"
           /\ calls[4].op = "SetShaderTexture"

\* the draw call made last in this frame was made with a texture
LastDrawTextured ==
    /\ frame >= 1
    /\ Len(draws[frame]) >= 1
    /\ \E k \in DOMAIN draws[frame][Len(draws[frame])].calls :
          /\ draws[frame][Len(draws[frame])].calls[k].op = "SetShaderTexture"
          /\ draws[frame][Len(draws[frame])].calls[k].slot >= 0

\* C20: in the Module 7 RenderScene, when the block of the next object starts
\* after a textured draw, the active texture unit has no texture bound.
C20_UnboundAtBlockStart ==
    (/\ revision = "M7"
     /\ rpc >= 1
     /\ LastDrawTextured
     /\ RenderSceneCalls(revision)[IF rpc >= 1 THEN rpc ELSE 1].op
           = "SetTransformations")
        => glBound[glActive] = 0

-----------------------------------------------------------------------------
\* Properties of the texture bindings and of the appearance at a draw call

\* C21: after BindGLTextures every texture unit i below m_loadedTextures has
\* the ID of registry entry i bound, so that the unit FindTextureSlot names for
\* a tag holds the texture FindTextureID returns for it; the units from
\* m_loadedTextures on, and the registry, are as they were before the call.
C21_BindGLTexturesBindsEachSlot ==
    last.op = "BindGLTextures"
        => /\ \A i \in 0..(m_loadedTextures - 1) : glBound[i] = Registered(i).ID
           /\ \A t \in CheckedTags :
                 FindTextureSlot(t) >= 0
                    => /\ Registered(FindTextureSlot(t)).tag = t
                       /\ glBound[FindTextureSlot(t)] = FindTextureID(t)
           /\ \A u \in DOMAIN glBound :
                 u >= m_loadedTextures => glBound[u] = pre.bound[u]
           /\ m_textureIDs = pre.entries
           /\ m_loadedTextures = pre.n

\* three textures are registered, the second and third under the same tag,
\* and BindGLTextures has bound units that held nothing before
C21_Witness ==
    /\ last.op = "BindGLTextures"
    /\ revision = "M7"
    /\ m_loadedTextures = 3
    /\ FindTextureSlot("B") = 1
    /\ Registered(2).tag = "B"
    /\ pre.bound[1] = 0 /\ pre.bound[2] = 0
    /\ glBound[1] = FindTextureID("B")
    /\ glBound[2] = Registered(2).ID
    /\ glBound[3] = 0

\* the tags of the SetShaderTexture calls made for the draw call made last
ChosenTags ==
    LET calls == draws[frame][Len(draws[frame])].calls
    IN  {calls[k].tag : k \in {i \in DOMAIN calls : calls[i].op = "SetShaderTexture"}}

\* C22: at every draw call of the Module 7 RenderScene made after a
\* SetShaderTexture(tag), all loads having succeeded and a shader manager being
\* there, texturing is on, the sampler objectTexture holds the slot tag was
\* registered at, and that texture unit has the ID registered for tag bound.
C22_SamplerAndUnitAtTexturedDraw ==
    (revision = "M7" /\ AllLoadsSucceed /\ m_pShaderManager # "NULL" /\ stmt.op = "Draw")
        => \A t \in ChosenTags :
              /\ uniforms.bUseTexture = <<1>>
              /\ FindTextureSlot(t) >= 0
              /\ uniforms.objectTexture = <<FindTextureSlot(t)>>
              /\ \E k \in DOMAIN registered :
                    /\ registered[k].tag = t
                    /\ registered[k].slot = FindTextureSlot(t)
                    /\ glBound[FindTextureSlot(t)] = registered[k].ID

\* in the second frame the second cylinder is drawn with "oakWood" again, after
\* the unbind that followed the first one took the texture off unit 0
C22_Witness ==
    /\ revision = "M7" /\ AllLoadsSucceed /\ m_pShaderManager = "shader"
    /\ stmt.op = "Draw"
    /\ frame = 2
    /\ Len(draws[2]) = 4
    /\ ChosenTags = {"oakWood"}
    /\ draws[2][4].calls[1].op = "glBindTexture"
    /\ draws[2][3].calls[Len(draws[2][3].calls)].tag = "oakWood"
    /\ uniforms.objectTexture = <<0>>
    /\ glBound[0] = 1

\* C23: at every draw call of a RenderScene after the first, the uniforms
\* bUseTexture, objectColor, objectTexture and UVscale hold what they held at
\* the same draw call of the first RenderScene.
C23_AppearanceSameInEveryFrame ==
    \A f \in 2..Len(appearance) : \A i \in 1..Len(appearance[f]) :
        appearance[f][i] = appearance[1][i]

\* C24: in Module 4 and in Module 7, the sampler objectTexture only ever holds
\* a slot index in 0 .. m_loadedTextures - 1, and a SetShaderTexture whose tag
\* is not registered leaves the sampler as it was.
C24_SamplerIsARegisteredSlot ==
    /\ uniforms.objectTexture # << >>
          => uniforms.objectTexture[1] \in 0..(m_loadedTextures - 1)
    /\ (last.op = "SetShaderTexture" /\ last.val = NotFound)
          => uniforms.objectTexture = pre.uniforms.objectTexture

-----------------------------------------------------------------------------
\* Properties of the material upload and of the setters without a shader

Setters ==
    {"SetTransformations", "SetShaderColor", "SetShaderTexture", "SetTextureUVScale",
     "SetShaderMaterial"}

-----------------------------------------------------------------------------
\* Properties of CreateGLTexture's return paths and of the two lookups

\* the texture names glGenTextures has handed out that no slot of the registry
\* holds
UnrecordedTextures ==
    {name \in 1..glGenCount :
        \A i \in 0..(m_loadedTextures - 1) : Registered(i).ID # name}

\* C26: when CreateGLTexture has returned, true or false, no decoded image is
\* left allocated, every texture name that was generated is held by a slot of
\* the registry, and the active texture unit has no texture bound.
C26_EveryReturnPathCleansUp ==
    (last.op = "CreateGLTexture" /\ last.returned /\ pre.img = 0
     /\ pre.bound[pre.active] = 0 /\ pre.gen = pre.n)
        => /\ imageLive = 0
           /\ UnrecordedTextures = {}
           /\ glBound[glActive] = 0

\* C28: a Module 7 SceneManager starts with nothing registered, and as long as
\* no CreateGLTexture has registered a tag, FindTextureSlot and FindTextureID
\* return -1 for it: the placeholder "/0" the constructor wrote into the slots
\* is not found, neither at the start nor in the slots from m_loadedTextures
\* on later.
C28_PlaceholdersInvisible ==
    /\ last.op = "constructor" => (m_loadedTextures = 0 /\ registered = << >>)
    /\ \A t \in CheckedTags :
          (\A k \in DOMAIN registered : registered[k].tag # t)
             => /\ FindTextureSlot(t) = NotFound
                /\ FindTextureID(t) = NotFound
                /\ (last.op \in {"FindTextureSlot", "FindTextureID"} /\ last.tag = t)
                      => last.val = NotFound

\* the placeholder has been looked up in a registry that holds two textures
\* and fourteen slots that still carry it
C28_Witness ==
    /\ last.op = "FindTextureSlot"
    /\ last.tag = PlaceholderTag
    /\ last.val = NotFound
    /\ m_loadedTextures = 2
    /\ \A i \in 2..(MaxTextures - 1) : Registered(i).tag = PlaceholderTag
    /\ FindTextureID(PlaceholderTag) = NotFound

\* C29: for every tag, FindTextureSlot returns -1 exactly when no slot below
\* m_loadedTextures has the tag, and when it returns a slot, FindTextureID
\* returns the ID stored in that slot.
C29_LookupsAgree ==
    \A t \in CheckedTags :
        /\ (FindTextureSlot(t) = NotFound) <=> (Matches(t) = {})
        /\ FindTextureSlot(t) # NotFound
              => FindTextureID(t) = Registered(FindTextureSlot(t)).ID

\* two textures are registered under "A" and FindTextureID has been asked for it
C29_Witness ==
    /\ last.op = "FindTextureID"
    /\ last.tag = "A"
    /\ Cardinality(Matches("A")) = 2
    /\ FindTextureSlot("A") = 0
    /\ last.val = Registered(0).ID
    /\ \E i \in Matches("A") : Registered(i).ID # last.val

====
